---------------------------- MODULE Spec2Model ----------------------------
(***************************************************************************)
(* TurboDrift2D (src/Games/TurboDrift2D/game.js): the map loader, the      *)
(* player's per-frame physics with its checkpoint tracker, the collision   *)
(* kernel and the race start, as one state machine.                        *)
(*                                                                         *)
(* Representation of the program's numbers:                                *)
(*   - lengths are whole pixels, speeds whole pixels per second, time in   *)
(*     milliseconds; a product with a fractional factor is truncated       *)
(*     toward zero (MulDiv);                                               *)
(*   - an angle is the pair [q, f] standing for q*(pi/2) + f microradians; *)
(*     sine and cosine are exact for f = 0, which is what every map and    *)
(*     every respawn of the race specifications produces (all their        *)
(*     geometry is axis aligned and the race specifications steer          *)
(*     straight); steering itself is exercised where no position is        *)
(*     integrated (SpecDyn).                                               *)
(***************************************************************************)
EXTENDS Integers, Sequences, FiniteSets, TLC

VARIABLES
    g,      \* the module-level variables of game.js, by their source names
    tasks,  \* the asynchronous handlers in flight (init and btnStart clicks), with their locals
    obs,    \* what the last step did: the locals of the last updatePhysics call, the last load's outcome
    fn      \* argument and result of the pure function under check (function specifications)

vars == <<g, tasks, obs, fn>>

-----------------------------------------------------------------------------
(* Program constants *)

accel == 260
maxSpeed == 440
brake == 340
dragPct == 98
groundSlowPct == 92
groundMaxSpeedPct == 55
steerDeadzone == 5
steerLowMilli == 1600
steerHighMilli == 3200
obstacleDampPct == 60
aiDampPct == 70
backOffset == 30
carRadius == 18
defaultObstacleRadius == 18
defaultRaceLaps == 3
defaultTile == 32
maxDtMs == 33
countdownDuration == 3500

-----------------------------------------------------------------------------
(* Bounds of the model *)

\* the player's lap counter is unbounded in the program; a tick is explored while lap < MaxLap
MaxLap == 2
\* the car is not confined by the program; a tick is explored while it stays within the arena
ArenaMax == 48
\* frames explored with AI vehicles present
MaxAIFrames == 10
\* concurrent btnStart handlers explored by the load specification
MaxClicks == 2

-----------------------------------------------------------------------------
(* Arithmetic helpers *)

Abs(v) == IF v < 0 THEN 0 - v ELSE v

Sign(v) == IF v < 0 THEN 0 - 1 ELSE IF v > 0 THEN 1 ELSE 0

Min(a, b) == IF a < b THEN a ELSE b

Max(a, b) == IF a > b THEN a ELSE b

\* v * num / den, truncated toward zero
MulDiv(v, num, den) == Sign(v) * ((Abs(v) * num) \div den)

clamp(v, lo, hi) == Max(lo, Min(hi, v))

\* the largest r with r*r <= n
RECURSIVE IsqrtIn(_, _, _)
IsqrtIn(n, lo, hi) ==
    IF lo >= hi THEN lo
    ELSE LET mid == (lo + hi + 1) \div 2
         IN  IF mid * mid <= n THEN IsqrtIn(n, mid, hi) ELSE IsqrtIn(n, lo, mid - 1)

Isqrt(n) == IsqrtIn(n, 0, Min(n, 46340))

\* Math.hypot on whole pixels (exact whenever the true value is whole)
Hypot(dx, dy) == Isqrt(dx * dx + dy * dy)

\* a || b on numbers
OrElse(a, b) == IF a = 0 THEN b ELSE a

-----------------------------------------------------------------------------
(* Angles: [q, f] is q quarter turns plus f microradians *)

Angle(q, f) == [q |-> q, f |-> f]

\* degToRad on the rotations maps use (multiples of 90 degrees)
degToRad(deg) == Angle(deg \div 90, 0)

\* Math.cos / Math.sin of an axis-aligned angle
Cos(a) == CASE a.q % 4 = 0 -> 1
            [] a.q % 4 = 2 -> 0 - 1
            [] OTHER -> 0

Sin(a) == CASE a.q % 4 = 1 -> 1
            [] a.q % 4 = 3 -> 0 - 1
            [] OTHER -> 0

\* Math.atan2(dy, dx) of an axis-aligned vector; atan2(0, 0) = 0
Atan2(dy, dx) == CASE dy = 0 /\ dx >= 0 -> Angle(0, 0)
                   [] dy = 0 /\ dx < 0 -> Angle(2, 0)
                   [] dx = 0 /\ dy > 0 -> Angle(1, 0)
                   [] dx = 0 /\ dy < 0 -> Angle(0 - 1, 0)


-----------------------------------------------------------------------------
(* Collision kernel and segment test *)

circleCircleCollision(a, b, r) ==
    LET dx == a.x - b.x
        dy == a.y - b.y
    IN  dx * dx + dy * dy < r * r

resolveCircleCollision(a, b, r) ==
    LET dx == a.x - b.x
        dy == a.y - b.y
        dist == OrElse(Hypot(dx, dy), 1)
        overlap == r - dist
    IN  [x |-> MulDiv(dx * overlap, 1, dist), y |-> MulDiv(dy * overlap, 1, dist)]

circleRectCollision(cx, cy, r, rx, ry, rw, rh) ==
    LET nearestX == clamp(cx, rx, rx + rw)
        nearestY == clamp(cy, ry, ry + rh)
        dx == cx - nearestX
        dy == cy - nearestY
    IN  dx * dx + dy * dy < r * r

resolveCircleRect(cx, cy, r, rx, ry, rw, rh) ==
    LET nearestX == clamp(cx, rx, rx + rw)
        nearestY == clamp(cy, ry, ry + rh)
        dx == cx - nearestX
        dy == cy - nearestY
        dist == OrElse(Hypot(dx, dy), 1)
        overlap == r - dist
    IN  [x |-> MulDiv(dx * overlap, 1, dist), y |-> MulDiv(dy * overlap, 1, dist)]

\* Faulty variant: the endpoints do not count, t and u are compared strictly.
segmentIntersectOpen(x1, y1, x2, y2, x3, y3, x4, y4) ==
    LET den == (x1 - x2) * (y3 - y4) - (y1 - y2) * (x3 - x4)
        tn == (x1 - x3) * (y3 - y4) - (y1 - y3) * (x3 - x4)
        un == 0 - ((x1 - x2) * (y1 - y3) - (y1 - y2) * (x1 - x3))
        In01(n) == IF den > 0 THEN 0 < n /\ n < den ELSE den < n /\ n < 0
    IN  IF den = 0 THEN FALSE ELSE In01(tn) /\ In01(un)

\* t = tn/den and u = un/den both in [0, 1], compared exactly
segmentIntersect(x1, y1, x2, y2, x3, y3, x4, y4) ==
    LET den == (x1 - x2) * (y3 - y4) - (y1 - y2) * (x3 - x4)
        tn == (x1 - x3) * (y3 - y4) - (y1 - y3) * (x3 - x4)
        un == 0 - ((x1 - x2) * (y1 - y3) - (y1 - y2) * (x1 - x3))
        In01(n) == IF den > 0 THEN 0 <= n /\ n <= den ELSE den <= n /\ n <= 0
    IN  IF den = 0 THEN FALSE ELSE In01(tn) /\ In01(un)

-----------------------------------------------------------------------------
(* Track geometry *)

\* progress values t are kept in thousandths
TUnit == 1000

\* Faulty variant: a span between two equal points is kept as a segment.
RECURSIVE SegmentsFromKeepAll(_, _)
SegmentsFromKeepAll(path, i) ==
    IF i >= Len(path) THEN <<>>
    ELSE <<[a |-> path[i], b |-> path[i + 1], len |-> Hypot(path[i + 1].x - path[i].x, path[i + 1].y - path[i].y),
            dx |-> path[i + 1].x - path[i].x, dy |-> path[i + 1].y - path[i].y]>>
         \o SegmentsFromKeepAll(path, i + 1)

RECURSIVE SegmentsFrom(_, _)
SegmentsFrom(path, i) ==
    IF i >= Len(path) THEN <<>>
    ELSE LET a == path[i]
             b == path[i + 1]
             dx == b.x - a.x
             dy == b.y - a.y
             len == Hypot(dx, dy)
         IN  IF len <= 0 THEN SegmentsFrom(path, i + 1)
             ELSE <<[a |-> a, b |-> b, len |-> len, dx |-> dx, dy |-> dy]>> \o SegmentsFrom(path, i + 1)

RECURSIVE SumLen(_)
SumLen(segs) == IF segs = <<>> THEN 0 ELSE Head(segs).len + SumLen(Tail(segs))

buildTrackSegments(s) ==
    IF Len(s.trackPath) < 2
    THEN [s EXCEPT !.trackSegments = <<>>, !.trackLength = 0]
    ELSE LET segs == SegmentsFrom(s.trackPath, 1)
         IN  [s EXCEPT !.trackSegments = segs, !.trackLength = SumLen(segs)]

\* Faulty variant: the length of a segment passed over is not taken off the distance.
RECURSIVE SampleFromNoCarry(_, _)
SampleFromNoCarry(segs, dist) ==
    LET seg == Head(segs)
    IN  IF dist <= seg.len * TUnit
        THEN [x |-> seg.a.x + MulDiv(seg.dx * (dist \div TUnit), 1, seg.len),
              y |-> seg.a.y + MulDiv(seg.dy * (dist \div TUnit), 1, seg.len),
              angle |-> Atan2(seg.dy, seg.dx), none |-> FALSE]
        ELSE IF Len(segs) = 1
             THEN [x |-> seg.b.x, y |-> seg.b.y, angle |-> Atan2(seg.dy, seg.dx), none |-> FALSE]
             ELSE SampleFromNoCarry(Tail(segs), dist)

\* dist is t * trackLength in thousandths of a pixel; the point is taken at its whole pixels
RECURSIVE SampleFrom(_, _)
SampleFrom(segs, dist) ==
    LET seg == Head(segs)
    IN  IF dist <= seg.len * TUnit
        THEN [x |-> seg.a.x + MulDiv(seg.dx * (dist \div TUnit), 1, seg.len),
              y |-> seg.a.y + MulDiv(seg.dy * (dist \div TUnit), 1, seg.len),
              angle |-> Atan2(seg.dy, seg.dx), none |-> FALSE]
        ELSE IF Len(segs) = 1
             THEN [x |-> seg.b.x, y |-> seg.b.y, angle |-> Atan2(seg.dy, seg.dx), none |-> FALSE]
             ELSE SampleFrom(Tail(segs), dist - seg.len * TUnit)

NoPoint == [x |-> 0, y |-> 0, angle |-> Angle(0, 0), none |-> TRUE]

sampleTrack(s, t) ==
    IF s.trackSegments = <<>> \/ s.trackLength = 0 THEN NoPoint
    ELSE SampleFrom(s.trackSegments, t * s.trackLength)

getAIPosition(s, ai) ==
    IF ai.useTrack THEN sampleTrack(s, ai.t)
    ELSE IF ai.hasPos THEN [x |-> ai.x, y |-> ai.y, angle |-> ai.angle, none |-> FALSE]
    ELSE NoPoint

-----------------------------------------------------------------------------
(* Surfaces *)

\* rawGid & ~(FLIP_H | FLIP_V | FLIP_D) on a 32-bit id: the low 29 bits
MaskGid(rawGid) == rawGid % 536870912

\* (name || "").toLowerCase().includes(...) on the names the maps use
IsRoadLayerName(name) == name \in {"road", "Road Layer"}
IsGroundLayerName(name) == name \in {"ground", "Ground Layer"}

\* Math.floor(x / w) for w > 0
FloorDiv(x, w) == x \div w

\* layer.data[idx] || 0
DataAt(layer, idx) == IF idx + 1 \in DOMAIN layer.data THEN layer.data[idx + 1] ELSE 0

RECURSIVE TileFrom(_, _, _, _)
TileFrom(layers, i, tx, ty) ==
    IF i < 1 THEN 0
    ELSE LET layer == layers[i]
             rawGid == DataAt(layer, ty * layer.width + tx)
         IN  IF layer.visible /\ rawGid # 0 THEN rawGid ELSE TileFrom(layers, i - 1, tx, ty)

getTileAt(s, layers, x, y) ==
    IF layers = <<>> \/ s.tiledMapTileWidth <= 0 \/ s.tiledMapTileHeight <= 0 THEN 0
    ELSE LET tx == FloorDiv(x, s.tiledMapTileWidth)
             ty == FloorDiv(y, s.tiledMapTileHeight)
             mapW == OrElse(s.tiledMapWidth, layers[1].width)
             mapH == OrElse(s.tiledMapHeight, layers[1].height)
         IN  IF tx < 0 \/ ty < 0 \/ tx >= mapW \/ ty >= mapH THEN 0
             ELSE TileFrom(layers, Len(layers), tx, ty)

\* the last tileset, in list order, before the first one whose firstgid exceeds gid
RECURSIVE ChosenFrom(_, _, _)
ChosenFrom(meta, i, gid) ==
    IF i > Len(meta) THEN 0
    ELSE IF gid >= meta[i].firstgid
         THEN LET later == ChosenFrom(meta, i + 1, gid) IN IF later = 0 THEN i ELSE later
         ELSE 0

\* index into the tileset list of the chosen tileset, 0 for none
findTilesetForGid(meta, gid) == ChosenFrom(meta, 1, gid)

getSurfaceFromGid(s, rawGid) ==
    LET gid == MaskGid(rawGid)
        chosen == findTilesetForGid(s.tiledTilesetMeta, gid)
    IN  IF gid = 0 THEN "none"
        ELSE IF chosen = 0 THEN "none"
        ELSE IF s.tiledTilesetMeta[chosen].name \in {"road", "asphalt"} THEN "road"
        ELSE IF s.tiledTilesetMeta[chosen].name \in {"grass", "land", "dirt", "sand"} THEN "ground"
        ELSE "none"

\* scanning from the top layer down: "road" at the first road tile, else whether a ground tile was seen
RECURSIVE AnyLayerFrom(_, _, _, _, _)
AnyLayerFrom(s, i, tx, ty, foundGround) ==
    IF i < 1 THEN (IF foundGround THEN "ground" ELSE "none")
    ELSE LET layer == s.tiledTileLayers[i]
             rawGid == DataAt(layer, ty * layer.width + tx)
             surface == getSurfaceFromGid(s, rawGid)
         IN  IF ~layer.visible \/ rawGid = 0 THEN AnyLayerFrom(s, i - 1, tx, ty, foundGround)
             ELSE IF surface = "road" THEN "road"
             ELSE AnyLayerFrom(s, i - 1, tx, ty, foundGround \/ surface = "ground")

getSurfaceAtAnyLayer(s, x, y) ==
    IF s.tiledTileLayers = <<>> THEN "none"
    ELSE LET tx == FloorDiv(x, s.tiledMapTileWidth)
             ty == FloorDiv(y, s.tiledMapTileHeight)
             mapW == OrElse(s.tiledMapWidth, s.tiledTileLayers[1].width)
             mapH == OrElse(s.tiledMapHeight, s.tiledTileLayers[1].height)
         IN  IF tx < 0 \/ ty < 0 \/ tx >= mapW \/ ty >= mapH THEN "none"
             ELSE AnyLayerFrom(s, Len(s.tiledTileLayers), tx, ty, FALSE)

getSurfaceAt(s, x, y) ==
    IF s.tiledRoadLayers # <<>>
    THEN LET tx == FloorDiv(x, s.tiledMapTileWidth)
             ty == FloorDiv(y, s.tiledMapTileHeight)
             mapW == OrElse(s.tiledMapWidth, s.tiledRoadLayers[1].width)
             mapH == OrElse(s.tiledMapHeight, s.tiledRoadLayers[1].height)
         IN  IF getTileAt(s, s.tiledRoadLayers, x, y) # 0 THEN "road"
             ELSE IF s.tiledGroundLayers # <<>> /\ getTileAt(s, s.tiledGroundLayers, x, y) # 0 THEN "ground"
             ELSE IF tx >= 0 /\ ty >= 0 /\ tx < mapW /\ ty < mapH THEN "ground"
             ELSE "none"
    ELSE getSurfaceAtAnyLayer(s, x, y)

-----------------------------------------------------------------------------
(* Checkpoint respawn *)

\* whether checkpoints[index] exists, for a 0-based index
HasCheckpoint(s, index) == index >= 0 /\ index < Len(s.checkpoints)

MidX(cp) == (cp.x1 + cp.x2) \div 2

MidY(cp) == (cp.y1 + cp.y2) \div 2

\* Faulty variant: the spawn is the checkpoint's midpoint itself.
getCheckpointSpawnAtMidpoint(s, index) ==
    LET cp == s.checkpoints[index + 1]
        lineAngle == Atan2(cp.y2 - cp.y1, cp.x2 - cp.x1)
        trackAngle == Angle(lineAngle.q + 1, lineAngle.f)
    IN  [x |-> MidX(cp), y |-> MidY(cp), angle |-> trackAngle]

\* the spawn of an existing checkpoint (the caller tests HasCheckpoint where the code tests for null)
getCheckpointSpawn(s, index) ==
    LET cp == s.checkpoints[index + 1]
        lineAngle == Atan2(cp.y2 - cp.y1, cp.x2 - cp.x1)
        trackAngle == Angle(lineAngle.q + 1, lineAngle.f)
    IN  [x |-> MidX(cp) - Cos(trackAngle) * backOffset,
         y |-> MidY(cp) - Sin(trackAngle) * backOffset,
         angle |-> trackAngle]

respawnToCheckpoint(s, index) ==
    LET target == IF index >= 0 /\ HasCheckpoint(s, index) THEN getCheckpointSpawn(s, index) ELSE s.startSpawn
        nextIndex == (index + 1) % Len(s.checkpoints)
        next == s.checkpoints[nextIndex + 1]
        angle == IF index >= 0 /\ Len(s.checkpoints) > 0
                 THEN Atan2(MidY(next) - target.y, MidX(next) - target.x)
                 ELSE target.angle
    IN  [s EXCEPT !.car.x = target.x, !.car.y = target.y, !.car.angle = angle, !.car.speed = 0,
                  !.lastX = target.x, !.lastY = target.y]

-----------------------------------------------------------------------------
(* updatePhysics *)

\* the controls read by one updatePhysics call; stickX is steeringStick.valueX in thousandths
NoInput == [left |-> FALSE, right |-> FALSE, up |-> FALSE, down |-> FALSE,
            accelPedal |-> FALSE, brakePedal |-> FALSE, stickX |-> 0]

B2N(b) == IF b THEN 1 ELSE 0

SteeringInput(in) == IF in.left \/ in.right THEN (IF in.left THEN 0 - 1000 ELSE 1000) ELSE in.stickX

Throttle(in) == clamp(B2N(in.up) - B2N(in.down) + B2N(in.accelPedal) - B2N(in.brakePedal), 0 - 1, 1)

\* Faulty variant: the surface limit is not applied on the reverse side.
SpeedAfterThrottleForwardClampOnly(speed, throttle, dt, surface) ==
    LET driven == IF throttle > 0 THEN speed + MulDiv(accel * throttle * dt, 1, 1000)
                  ELSE IF throttle < 0 THEN speed + MulDiv(brake * throttle * dt, 1, 1000)
                  ELSE MulDiv(speed, dragPct, 100)
        slowed == IF surface = "ground" THEN MulDiv(driven, groundSlowPct, 100) ELSE driven
        maxSurfaceSpeed == IF surface = "ground" THEN MulDiv(maxSpeed, groundMaxSpeedPct, 100) ELSE maxSpeed
    IN  clamp(slowed, 0 - maxSpeed, maxSurfaceSpeed)

\* lines 945-957: throttle, drag, surface slowdown and the clamp
SpeedAfterThrottle(speed, throttle, dt, surface) ==
    LET driven == IF throttle > 0 THEN speed + MulDiv(accel * throttle * dt, 1, 1000)
                  ELSE IF throttle < 0 THEN speed + MulDiv(brake * throttle * dt, 1, 1000)
                  ELSE MulDiv(speed, dragPct, 100)
        slowed == IF surface = "ground" THEN MulDiv(driven, groundSlowPct, 100) ELSE driven
        maxSurfaceSpeed == IF surface = "ground" THEN MulDiv(maxSpeed, groundMaxSpeedPct, 100) ELSE maxSpeed
    IN  clamp(slowed, 0 - (maxSurfaceSpeed \div 2), maxSurfaceSpeed)

\* Faulty variant: the turn is not reversed when the car moves backwards.
AngleAfterSteeringNoReverse(angle, speed, steeringInput, dt) ==
    LET speedAbs == Abs(speed)
        steerStrength == steerLowMilli + MulDiv(steerHighMilli - steerLowMilli, clamp(speedAbs, 0, maxSpeed), maxSpeed)
        turn == MulDiv(steeringInput * steerStrength * dt, 1, 1000)
    IN  IF speedAbs > steerDeadzone THEN Angle(angle.q, angle.f + turn) ELSE angle

\* lines 959-964: the heading after steering, for a steering input in thousandths
AngleAfterSteering(angle, speed, steeringInput, dt) ==
    LET speedAbs == Abs(speed)
        steerStrength == steerLowMilli + MulDiv(steerHighMilli - steerLowMilli, clamp(speedAbs, 0, maxSpeed), maxSpeed)
        turn == MulDiv(steeringInput * steerStrength * dt, 1, 1000) * (IF speed >= 0 THEN 1 ELSE 0 - 1)
    IN  IF speedAbs > steerDeadzone THEN Angle(angle.q, angle.f + turn) ELSE angle

\* lines 982, 989, 1002: car.speed *= 0.6 / 0.7
Damp(speed, pct) == MulDiv(speed, pct, 100)

\* lines 976-992: one obstacle after the other, each push applied at once
RECURSIVE ObstaclePass(_, _, _)
ObstaclePass(c, obstacles, i) ==
    IF i > Len(obstacles) THEN c
    ELSE LET ob == obstacles[i]
             hit == IF ob.isRect
                    THEN circleRectCollision(c.x, c.y, c.radius, ob.x, ob.y, ob.w, ob.h)
                    ELSE circleCircleCollision(c, ob, c.radius + ob.r)
             push == IF ob.isRect
                     THEN resolveCircleRect(c.x, c.y, c.radius, ob.x, ob.y, ob.w, ob.h)
                     ELSE resolveCircleCollision(c, ob, c.radius + ob.r)
         IN  IF hit
             THEN ObstaclePass([c EXCEPT !.x = c.x + push.x, !.y = c.y + push.y,
                                         !.speed = Damp(c.speed, obstacleDampPct),
                                         !.collided = TRUE], obstacles, i + 1)
             ELSE ObstaclePass(c, obstacles, i + 1)

\* lines 994-1005: the AI vehicles, as circles of the car's radius
RECURSIVE AIPass(_, _, _)
AIPass(s, c, i) ==
    IF i > Len(s.aiCars) THEN c
    ELSE LET pos == getAIPosition(s, s.aiCars[i])
             aiCircle == [x |-> pos.x, y |-> pos.y, r |-> c.radius]
             push == resolveCircleCollision(c, aiCircle, c.radius + aiCircle.r)
         IN  IF ~pos.none /\ circleCircleCollision(c, aiCircle, c.radius + aiCircle.r)
             THEN AIPass(s, [c EXCEPT !.x = c.x + push.x, !.y = c.y + push.y,
                                      !.speed = Damp(c.speed, aiDampPct),
                                      !.collided = TRUE], i + 1)
             ELSE AIPass(s, c, i + 1)

\* Faulty variant: the loop runs to the end without the break, the last checkpoint met is the crossed one.
RECURSIVE CrossedFromNoBreak(_, _, _, _, _, _)
CrossedFromNoBreak(cps, i, x1, y1, x2, y2) ==
    IF i > Len(cps) THEN 0 - 1
    ELSE LET later == CrossedFromNoBreak(cps, i + 1, x1, y1, x2, y2)
         IN  IF later # 0 - 1 THEN later
             ELSE IF segmentIntersect(x1, y1, x2, y2, cps[i].x1, cps[i].y1, cps[i].x2, cps[i].y2) THEN i - 1
             ELSE 0 - 1

\* lines 1018-1025: the first checkpoint, in index order, met by the movement segment; -1 for none
RECURSIVE CrossedFrom(_, _, _, _, _, _)
CrossedFrom(cps, i, x1, y1, x2, y2) ==
    IF i > Len(cps) THEN 0 - 1
    ELSE IF segmentIntersect(x1, y1, x2, y2, cps[i].x1, cps[i].y1, cps[i].x2, cps[i].y2) THEN i - 1
    ELSE CrossedFrom(cps, i + 1, x1, y1, x2, y2)

\* Faulty variants of the tracker, against which the tracker properties are tested.
\* A crossing ahead of the expected checkpoint is accepted as progress.
TrackCrossingSkipAccepted(s, crossedIndex) ==
    IF crossedIndex = 0 - 1 THEN s
    ELSE IF crossedIndex >= s.currentCheckpoint
         THEN IF crossedIndex + 1 >= Len(s.checkpoints)
              THEN [s EXCEPT !.lastCheckpointIndex = crossedIndex, !.currentCheckpoint = 0, !.lap = s.lap + 1]
              ELSE [s EXCEPT !.lastCheckpointIndex = crossedIndex, !.currentCheckpoint = crossedIndex + 1]
         ELSE s

\* The lap is counted at every accepted crossing.
TrackCrossingLapEachCrossing(s, crossedIndex) ==
    IF crossedIndex = 0 - 1 THEN s
    ELSE IF crossedIndex = s.currentCheckpoint
         THEN IF s.currentCheckpoint + 1 >= Len(s.checkpoints)
              THEN [s EXCEPT !.lastCheckpointIndex = crossedIndex, !.currentCheckpoint = 0, !.lap = s.lap + 1]
              ELSE [s EXCEPT !.lastCheckpointIndex = crossedIndex, !.currentCheckpoint = s.currentCheckpoint + 1,
                             !.lap = s.lap + 1]
         ELSE IF crossedIndex > s.currentCheckpoint
              THEN respawnToCheckpoint(s, s.lastCheckpointIndex)
              ELSE s

\* A crossing behind the expected checkpoint respawns the car as well.
TrackCrossingBehindRespawns(s, crossedIndex) ==
    IF crossedIndex = 0 - 1 THEN s
    ELSE IF crossedIndex = s.currentCheckpoint
         THEN IF s.currentCheckpoint + 1 >= Len(s.checkpoints)
              THEN [s EXCEPT !.lastCheckpointIndex = crossedIndex, !.currentCheckpoint = 0, !.lap = s.lap + 1]
              ELSE [s EXCEPT !.lastCheckpointIndex = crossedIndex, !.currentCheckpoint = s.currentCheckpoint + 1]
         ELSE respawnToCheckpoint(s, s.lastCheckpointIndex)

\* lines 1026-1037: the tracker's transition on the crossed index
TrackCrossing(s, crossedIndex) ==
    IF crossedIndex = 0 - 1 THEN s
    ELSE IF crossedIndex = s.currentCheckpoint
         THEN IF s.currentCheckpoint + 1 >= Len(s.checkpoints)
              THEN [s EXCEPT !.lastCheckpointIndex = crossedIndex, !.currentCheckpoint = 0, !.lap = s.lap + 1]
              ELSE [s EXCEPT !.lastCheckpointIndex = crossedIndex, !.currentCheckpoint = s.currentCheckpoint + 1]
         ELSE IF crossedIndex > s.currentCheckpoint
              THEN respawnToCheckpoint(s, s.lastCheckpointIndex)
              ELSE s

\* what an updatePhysics call that returned at once leaves in obs
NoTick == [ran |-> FALSE, surface |-> "none", collided |-> FALSE, crossedIndex |-> 0 - 1,
           respawned |-> FALSE, moved |-> [x |-> 0, y |-> 0, angle |-> Angle(0, 0), speed |-> 0]]

\* Faulty variant: the countdown does not hold the player.
GatedByStartOnly(s) == ~s.started

\* line 932: the call returns at once
Gated(s) == ~s.started \/ s.countdownActive

\* lines 966-974: the car as a circle after integration
Integrated(s, speed, angle, dt) ==
    [x |-> s.car.x + MulDiv(Cos(angle) * speed * dt, 1, 1000),
     y |-> s.car.y + MulDiv(Sin(angle) * speed * dt, 1, 1000),
     angle |-> angle, speed |-> speed, radius |-> s.car.radius, collided |-> FALSE]

\* lines 1017-1025
CrossedIndex(s) ==
    IF Len(s.checkpoints) > 0
    THEN CrossedFrom(s.checkpoints, 1, s.lastX, s.lastY, s.car.x, s.car.y)
    ELSE 0 - 1

\* lines 1026-1037, with the call's locals beside the state; c is the car after the collision loops
Tracked(s, surface, c, crossedIndex) ==
    [s |-> TrackCrossing(s, crossedIndex),
     o |-> [ran |-> TRUE, surface |-> surface, collided |-> c.collided, crossedIndex |-> crossedIndex,
            respawned |-> crossedIndex > s.currentCheckpoint,
            moved |-> [x |-> c.x, y |-> c.y, angle |-> c.angle, speed |-> c.speed]]]

Crossed(s, surface, c) == Tracked(s, surface, c, CrossedIndex(s))

\* lines 971-1005 seen from the end: lastX, lastY hold the position before the move, the car is c
Settled(s, surface, c) ==
    Crossed([s EXCEPT !.lastX = s.car.x, !.lastY = s.car.y,
                      !.car.x = c.x, !.car.y = c.y, !.car.angle = c.angle, !.car.speed = c.speed],
            surface, c)

\* lines 959-1005 for the speed that lines 945-957 left
Steered(s, in, dt, surface, speed) ==
    Settled(s, surface,
            AIPass(s, ObstaclePass(Integrated(s, speed,
                                              AngleAfterSteering(s.car.angle, speed, SteeringInput(in), dt), dt),
                                   s.obstacles, 1), 1))

Driven(s, in, dt, surface) ==
    Steered(s, in, dt, surface, SpeedAfterThrottle(s.car.speed, Throttle(in), dt, surface))

\* the state after updatePhysics(dt) and the call's locals: [s, o]
updatePhysics(s, in, dt) ==
    IF Gated(s) THEN [s |-> s, o |-> NoTick]
    ELSE Driven(s, in, dt, getSurfaceAt(s, s.car.x, s.car.y))

-----------------------------------------------------------------------------
(* The module-level state after construction (lines 4-5, 112-117, 165-175, 534-592).                *)
(* timerStart is "null" or "set"; countdownElapsed is now - countdownStart while the countdown is   *)
(* active and 0 otherwise; menuHidden is the "hidden" class of menuOverlay; loopRunning is whether  *)
(* init() has resolved, which is when setupMenu has run and the first frame is requested.           *)

Pt(x, y) == [x |-> x, y |-> y]

Circle(x, y, r) == [isRect |-> FALSE, x |-> x, y |-> y, r |-> r, w |-> 0, h |-> 0]

Rect(x, y, w, h) == [isRect |-> TRUE, x |-> x, y |-> y, r |-> 0, w |-> w, h |-> h]

Seg(x1, y1, x2, y2) == [x1 |-> x1, y1 |-> y1, x2 |-> x2, y2 |-> y2]

InitG ==
    [worldWidth |-> 1280, worldHeight |-> 720,
     started |-> FALSE, selectedMode |-> "time_trial",
     tiledTrackTiles |-> <<>>, tiledTileLayers |-> <<>>, tiledRoadLayers |-> <<>>, tiledGroundLayers |-> <<>>,
     tiledTilesetMeta |-> <<>>, tiledTilesetImages |-> {},
     tiledMapTileWidth |-> defaultTile, tiledMapTileHeight |-> defaultTile,
     tiledMapWidth |-> 0, tiledMapHeight |-> 0, hasMapObjects |-> FALSE,
     car |-> [x |-> 320, y |-> 360, angle |-> degToRad(0), speed |-> 0, radius |-> carRadius],
     obstacles |-> <<Circle(420, 260, 18), Circle(880, 220, 18), Circle(960, 500, 18), Circle(520, 520, 18)>>,
     trackWidth |-> 110,
     trackPath |-> <<Pt(180, 200), Pt(980, 200), Pt(980, 360), Pt(760, 360), Pt(760, 520),
                     Pt(300, 520), Pt(300, 360), Pt(540, 360), Pt(540, 200), Pt(180, 200)>>,
     checkpoints |-> <<Seg(260, 260, 260, 500), Seg(980, 260, 980, 480),
                       Seg(360, 200, 700, 200), Seg(360, 560, 700, 560)>>,
     hasMapObstacles |-> FALSE, hasMapCheckpoints |-> FALSE,
     startSpawn |-> [x |-> 320, y |-> 360, angle |-> degToRad(0)],
     aiSpawnPoints |-> <<>>, aiCars |-> <<>>, aiCheckpoints |-> <<>>,
     raceLaps |-> defaultRaceLaps, trackSegments |-> <<>>, trackLength |-> 0,
     currentCheckpoint |-> 0, lastCheckpointIndex |-> 0 - 1, lap |-> 1,
     lastX |-> 320, lastY |-> 360,
     timerStart |-> "null",
     countdownActive |-> FALSE, countdownElapsed |-> 0,
     menuHidden |-> FALSE, loopRunning |-> FALSE]

-----------------------------------------------------------------------------
(* Map documents: what fetch and res.json() deliver *)

\* a tileset entry of the document
Tileset(firstgid, name, image, imgOk, tilecount) ==
    [firstgid |-> firstgid, name |-> name, image |-> image, imgOk |-> imgOk,
     imagewidth |-> 0, imageheight |-> 0, tilewidth |-> 0, tileheight |-> 0,
     spacing |-> 0, margin |-> 0, columns |-> 0, tilecount |-> tilecount]

\* an object of an object layer: gid < 0, radius < 0, trackWidth < 0 and rotation = "none" stand for
\* an absent field; name is the lower-cased obj.name || obj.type, with the digits of checkpointN in idx
Obj(name, x, y, width, height) ==
    [name |-> name, idx |-> 0, gid |-> 0 - 1, x |-> x, y |-> y, width |-> width, height |-> height,
     hasRotation |-> FALSE, rotation |-> 0, polyline |-> <<>>, hasPolyline |-> FALSE,
     radius |-> 0 - 1, trackWidth |-> 0 - 1]

CheckpointN(n, x, y, width, height) == [Obj("checkpointN", x, y, width, height) EXCEPT !.idx = n]

\* payload: how decodeLayerData ends for the layer
\*   "array"      layer.data is an array
\*   "null"       no data, an encoding other than base64, or no DecompressionStream in the runtime
\*   "sync"       uncompressed base64
\*   "syncThrow"  atob rejects the text, or DecompressionStream rejects the format
\*   "async"      compressed base64 that decompresses
\*   "asyncThrow" compressed base64 whose stream fails
TileLayer(name, payload, data, width, height) ==
    [type |-> "tilelayer", name |-> name, payload |-> payload, data |-> data,
     width |-> width, height |-> height, visible |-> TRUE, opacity |-> 1, objects |-> <<>>]

ObjectLayer(name, objects) ==
    [type |-> "objectgroup", name |-> name, payload |-> "null", data |-> <<>>,
     width |-> 0, height |-> 0, visible |-> TRUE, opacity |-> 1, objects |-> objects]

\* a numeric "laps" value is kept in tenths
LapUnit == 10

\* laps: [kind |-> "none" | "number" | "string", value], the value of a number in tenths
NoLaps == [kind |-> "none", value |-> 0]

MapDoc(id, width, height, tilesets, layers) ==
    [id |-> id, ok |-> TRUE, jsonOk |-> TRUE, laps |-> NoLaps, width |-> width, height |-> height,
     tilewidth |-> defaultTile, tileheight |-> defaultTile, tilesets |-> tilesets, layers |-> layers]

-----------------------------------------------------------------------------
(* loadTiledMap, cut at its awaits *)

\* Array.prototype.sort with a numeric comparator on key(e): a stable sort
RECURSIVE InsertByFirstgid(_, _)
InsertByFirstgid(sorted, e) ==
    IF sorted = <<>> THEN <<e>>
    ELSE IF e.firstgid < Head(sorted).firstgid THEN <<e>> \o sorted
    ELSE <<Head(sorted)>> \o InsertByFirstgid(Tail(sorted), e)

RECURSIVE SortByFirstgid(_)
SortByFirstgid(seq) ==
    IF seq = <<>> THEN <<>>
    ELSE InsertByFirstgid(SortByFirstgid(SubSeq(seq, 1, Len(seq) - 1)), seq[Len(seq)])

RECURSIVE InsertByIndex(_, _)
InsertByIndex(sorted, e) ==
    IF sorted = <<>> THEN <<e>>
    ELSE IF e.index < Head(sorted).index THEN <<e>> \o sorted
    ELSE <<Head(sorted)>> \o InsertByIndex(Tail(sorted), e)

RECURSIVE SortByIndex(_)
SortByIndex(seq) ==
    IF seq = <<>> THEN <<>>
    ELSE InsertByIndex(SortByIndex(SubSeq(seq, 1, Len(seq) - 1)), seq[Len(seq)])

RECURSIVE MapSeq(_, _)
MapSeq(F(_), seq) == IF seq = <<>> THEN <<>> ELSE <<F(Head(seq))>> \o MapSeq(F, Tail(seq))

RECURSIVE FilterSeq(_, _)
FilterSeq(P(_), seq) ==
    IF seq = <<>> THEN <<>>
    ELSE (IF P(Head(seq)) THEN <<Head(seq)>> ELSE <<>>) \o FilterSeq(P, Tail(seq))

\* the locals of one loadTiledMap call
NoLocals ==
    [tilesetMeta |-> <<>>, tilesetImages |-> {}, newTiles |-> <<>>, newTileLayers |-> <<>>,
     newAISpawns |-> <<>>, newAICheckpoints |-> <<>>, newMapCheckpoints |-> <<>>]

\* lines 182-184: the map-level "laps" property
LapsApplied(s, map) ==
    IF map.laps.kind = "number"
    THEN [s EXCEPT !.raceLaps = Max(1, FloorDiv(map.laps.value, LapUnit))]
    ELSE s

\* Faulty variant: the descriptors in the order the document gives them, not sorted.
TilesetMetaUnsorted(map) ==
    LET Meta(ts) == [ts EXCEPT !.tilewidth = OrElse(ts.tilewidth, OrElse(map.tilewidth, defaultTile)),
                               !.tileheight = OrElse(ts.tileheight, OrElse(map.tileheight, defaultTile))]
    IN  MapSeq(Meta, map.tilesets)

\* lines 188-202: the tileset descriptors, sorted by firstgid
TilesetMetaOf(map) ==
    LET Meta(ts) == [ts EXCEPT !.tilewidth = OrElse(ts.tilewidth, OrElse(map.tilewidth, defaultTile)),
                               !.tileheight = OrElse(ts.tileheight, OrElse(map.tileheight, defaultTile))]
    IN  SortByFirstgid(MapSeq(Meta, map.tilesets))

\* lines 204-206: the next tileset, from position i on, whose image has a path; Len + 1 for none
RECURSIVE NextImage(_, _)
NextImage(meta, i) ==
    IF i > Len(meta) THEN i
    ELSE IF meta[i].image THEN i
    ELSE NextImage(meta, i + 1)

RECURSIVE MaxTile(_, _, _)
MaxTile(meta, i, best) ==
    IF i > Len(meta) THEN best
    ELSE MaxTile(meta, i + 1, [w |-> Max(best.w, meta[i].tilewidth), h |-> Max(best.h, meta[i].tileheight)])

\* lines 220-233: tileset metadata, tile and map dimensions, world size
Published(s, loc, map) ==
    LET tile == MaxTile(loc.tilesetMeta, 1, [w |-> OrElse(map.tilewidth, defaultTile),
                                             h |-> OrElse(map.tileheight, defaultTile)])
        s1 == [s EXCEPT !.tiledTilesetMeta = loc.tilesetMeta,
                        !.tiledTilesetImages = loc.tilesetImages,
                        !.tiledMapTileWidth = tile.w, !.tiledMapTileHeight = tile.h,
                        !.tiledMapWidth = map.width, !.tiledMapHeight = map.height]
    IN  IF map.width # 0 /\ map.height # 0
        THEN [s1 EXCEPT !.worldWidth = map.width * tile.w, !.worldHeight = map.height * tile.h]
        ELSE s1

\* lines 259-266: the centerline and its width, from the layer named "track"
TrackApplied(s, layer) ==
    LET IsTrack(o) == o.name = "track_path" /\ o.hasPolyline
        hits == FilterSeq(IsTrack, layer.objects)
        trackObj == Head(hits)
        Shift(p) == Pt(trackObj.x + p.x, trackObj.y + p.y)
        s1 == [s EXCEPT !.trackPath = MapSeq(Shift, trackObj.polyline)]
    IN  IF layer.name = "track" /\ hits # <<>>
        THEN (IF trackObj.trackWidth >= 0 THEN [s1 EXCEPT !.trackWidth = trackObj.trackWidth] ELSE s1)
        ELSE s

\* lines 272-397: one object; a is [s, loc, newObstacles, foundObjects]
ObjectApplied(a, obj) ==
    LET s == a.s
        loc == a.loc
        gid == MaskGid(obj.gid)
        ts == findTilesetForGid(loc.tilesetMeta, gid)
        found == [a EXCEPT !.foundObjects = TRUE, !.s.hasMapObjects = TRUE]
        carX == OrElse(obj.x, s.car.x)
        carY == OrElse(obj.y, s.car.y)
        carAngle == IF obj.hasRotation THEN degToRad(obj.rotation) ELSE s.car.angle
        x2 == obj.x + obj.width
        y2 == obj.y + obj.height
        nCp == Len(loc.newMapCheckpoints)
        p0 == obj.polyline[1]
        p1 == obj.polyline[Len(obj.polyline)]
    IN  IF obj.gid >= 0
        THEN IF ts = 0 THEN a
             ELSE IF loc.tilesetMeta[ts].firstgid \notin loc.tilesetImages THEN a
             ELSE [a EXCEPT !.loc.newTiles = Append(loc.newTiles,
                       [firstgid |-> loc.tilesetMeta[ts].firstgid, tileId |-> gid - loc.tilesetMeta[ts].firstgid,
                        x |-> obj.x, y |-> obj.y])]
        ELSE CASE obj.name = "car" ->
                    [found EXCEPT !.s.car.x = carX, !.s.car.y = carY, !.s.car.angle = carAngle,
                                  !.s.startSpawn = [x |-> carX, y |-> carY, angle |-> carAngle]]
               [] obj.name = "checkpointN" ->
                    [found EXCEPT !.loc.newAICheckpoints = Append(loc.newAICheckpoints,
                                      [index |-> obj.idx, x |-> obj.x + obj.width \div 2,
                                       y |-> obj.y + obj.height \div 2]),
                                  !.loc.newMapCheckpoints = Append(loc.newMapCheckpoints,
                                      [index |-> obj.idx, x1 |-> obj.x, y1 |-> obj.y, x2 |-> x2, y2 |-> y2])]
               [] obj.name \in {"tracklimitbox", "tracklimit", "tracklimit2"} ->
                    IF obj.width > 0 /\ obj.height > 0
                    THEN [found EXCEPT !.newObstacles = Append(a.newObstacles,
                                           Rect(obj.x, obj.y, obj.width, obj.height))]
                    ELSE found
               [] obj.name = "ai_spawn" ->
                    [a EXCEPT !.loc.newAISpawns = Append(loc.newAISpawns,
                                  [x |-> obj.x, y |-> obj.y,
                                   angle |-> IF obj.hasRotation THEN degToRad(obj.rotation) ELSE degToRad(0)])]
               [] obj.name = "obstacle" ->
                    [found EXCEPT !.newObstacles = Append(a.newObstacles,
                                      Circle(obj.x, obj.y, IF obj.radius >= 0 THEN obj.radius
                                                           ELSE defaultObstacleRadius))]
               [] obj.name = "checkpoint" ->
                    IF obj.hasPolyline /\ Len(obj.polyline) >= 2
                    THEN [found EXCEPT !.loc.newMapCheckpoints = Append(loc.newMapCheckpoints,
                                           [index |-> nCp, x1 |-> obj.x + p0.x, y1 |-> obj.y + p0.y,
                                            x2 |-> obj.x + p1.x, y2 |-> obj.y + p1.y])]
                    ELSE [found EXCEPT !.loc.newMapCheckpoints = Append(loc.newMapCheckpoints,
                                           [index |-> nCp, x1 |-> obj.x, y1 |-> obj.y, x2 |-> x2, y2 |-> y2])]
               [] OTHER -> a

RECURSIVE ObjectsApplied(_, _)
ObjectsApplied(a, objects) ==
    IF objects = <<>> THEN a ELSE ObjectsApplied(ObjectApplied(a, Head(objects)), Tail(objects))

StripIndex(c) == Seg(c.x1, c.y1, c.x2, c.y2)

\* Faulty variant: a layer's obstacles are added to the list that is there.
ObstaclesPublishedMerged(s, newObstacles) ==
    IF newObstacles # <<>> THEN [s EXCEPT !.obstacles = s.obstacles \o newObstacles, !.hasMapObstacles = TRUE] ELSE s

\* lines 400-403
ObstaclesPublished(s, newObstacles) ==
    IF newObstacles # <<>> THEN [s EXCEPT !.obstacles = newObstacles, !.hasMapObstacles = TRUE] ELSE s

\* Faulty variant: the checkpoints are published in the order they were met.
CheckpointsPublishedAsMet(s, newMapCheckpoints) ==
    IF newMapCheckpoints # <<>>
    THEN [s EXCEPT !.checkpoints = MapSeq(StripIndex, newMapCheckpoints), !.hasMapCheckpoints = TRUE]
    ELSE s

\* lines 404-410
CheckpointsPublished(s, newMapCheckpoints) ==
    IF newMapCheckpoints # <<>>
    THEN [s EXCEPT !.checkpoints = MapSeq(StripIndex, SortByIndex(newMapCheckpoints)),
                   !.hasMapCheckpoints = TRUE]
    ELSE s

\* Faulty variant: a layer is published without the reset of the progress.
ProgressNotReset(s) == s

\* lines 411-412
ProgressReset(s) == [s EXCEPT !.currentCheckpoint = 0, !.lastCheckpointIndex = 0 - 1]

\* lines 399-413, for the a = [s, loc, newObstacles, foundObjects] the objects left
LayerPublished(a) ==
    IF a.foundObjects
    THEN [s |-> ProgressReset(CheckpointsPublished(ObstaclesPublished(a.s, a.newObstacles),
                                                   a.loc.newMapCheckpoints)),
          loc |-> a.loc]
    ELSE [s |-> a.s, loc |-> a.loc]

\* lines 256-413: one object layer
ObjectLayerApplied(s, loc, layer) ==
    LayerPublished(ObjectsApplied([s |-> TrackApplied(s, layer), loc |-> loc, newObstacles |-> <<>>,
                                   foundObjects |-> FALSE], layer.objects))

\* lines 243-252: a decoded tile layer joins newTileLayers when it has cells
TileLayerApplied(loc, layer) ==
    IF layer.data # <<>>
    THEN [loc EXCEPT !.newTileLayers = Append(loc.newTileLayers,
              [name |-> layer.name, data |-> layer.data, width |-> layer.width, height |-> layer.height,
               opacity |-> layer.opacity, visible |-> layer.visible])]
    ELSE loc

\* lines 240-414 from layer i on, up to the next await that leaves the thread (or the end, or a throw):
\* [s, loc, at, thrown]; at is the layer whose decoding is awaited, Len + 1 after the last layer
RECURSIVE LayersFrom(_, _, _, _)
LayersAfter(r, map, i) == LayersFrom(r.s, r.loc, map, i)

LayersFrom(s, loc, map, i) ==
    IF i > Len(map.layers) THEN [s |-> s, loc |-> loc, at |-> i, thrown |-> FALSE]
    ELSE CASE map.layers[i].type = "tilelayer" /\ map.layers[i].payload \in {"array", "sync"} ->
                  LayersFrom(s, TileLayerApplied(loc, map.layers[i]), map, i + 1)
           [] map.layers[i].type = "tilelayer" /\ map.layers[i].payload = "null" ->
                  LayersFrom(s, loc, map, i + 1)
           [] map.layers[i].type = "tilelayer" /\ map.layers[i].payload = "syncThrow" ->
                  [s |-> s, loc |-> loc, at |-> i, thrown |-> TRUE]
           [] map.layers[i].type = "tilelayer" /\ map.layers[i].payload \in {"async", "asyncThrow"} ->
                  [s |-> s, loc |-> loc, at |-> i, thrown |-> FALSE]
           [] map.layers[i].type = "objectgroup" ->
                  LayersAfter(ObjectLayerApplied(s, loc, map.layers[i]), map, i + 1)
           [] OTHER -> LayersFrom(s, loc, map, i + 1)

IsRoadLayer(l) == IsRoadLayerName(l.name)

IsGroundLayer(l) == IsGroundLayerName(l.name)

StripAIIndex(p) == Pt(p.x, p.y)

\* lines 415-430: what the load publishes after its last layer
Finalized(s, loc) ==
    LET s1 == IF loc.newTiles # <<>> THEN [s EXCEPT !.tiledTrackTiles = loc.newTiles] ELSE s
        s2 == IF loc.newTileLayers # <<>> THEN [s1 EXCEPT !.tiledTileLayers = loc.newTileLayers] ELSE s1
        s3 == [s2 EXCEPT !.tiledRoadLayers = FilterSeq(IsRoadLayer, s2.tiledTileLayers),
                         !.tiledGroundLayers = FilterSeq(IsGroundLayer, s2.tiledTileLayers),
                         !.aiSpawnPoints = loc.newAISpawns,
                         !.aiCheckpoints = MapSeq(StripAIIndex, SortByIndex(loc.newAICheckpoints))]
    IN  IF s3.tiledTrackTiles # <<>> /\ ~s3.hasMapObjects
        THEN [s3 EXCEPT !.obstacles = <<>>, !.checkpoints = <<>>, !.hasMapObstacles = FALSE,
                        !.hasMapCheckpoints = FALSE, !.currentCheckpoint = 0, !.lastCheckpointIndex = 0 - 1]
        ELSE s3

-----------------------------------------------------------------------------
(* AI vehicles *)

aiBaseSpeed == 160
aiStepSpeed == 20
aiGroundPct == 55

\* MODE_OPTIONS: the mobs of a mode
Mobs(mode) == IF mode = "race" THEN 2 ELSE 0

\* bestT in thousandths: the projection on the first segment that is strictly nearest
RECURSIVE NearestFrom(_, _, _, _, _, _)
NearestFrom(s, i, x, y, accLen, best) ==
    IF i > Len(s.trackSegments) THEN best.t
    ELSE LET seg == s.trackSegments[i]
             vx == seg.b.x - seg.a.x
             vy == seg.b.y - seg.a.y
             denom == OrElse(vx * vx + vy * vy, 1)
             tSeg == clamp(MulDiv((x - seg.a.x) * vx + (y - seg.a.y) * vy, TUnit, denom), 0, TUnit)
             dx == x - (seg.a.x + MulDiv(vx * tSeg, 1, TUnit))
             dy == y - (seg.a.y + MulDiv(vy * tSeg, 1, TUnit))
             dist == dx * dx + dy * dy
             here == [dist |-> dist, t |-> (accLen * TUnit + seg.len * tSeg) \div s.trackLength]
         IN  NearestFrom(s, i + 1, x, y, accLen + seg.len,
                         IF best.dist < 0 \/ dist < best.dist THEN here ELSE best)

nearestTrackT(s, x, y) ==
    IF s.trackSegments = <<>> \/ s.trackLength <= 0 THEN 0
    ELSE NearestFrom(s, 1, x, y, 0, [dist |-> 0 - 1, t |-> 0])

\* the vehicle pushed for index i (0-based), <<>> when none is pushed
AICarFor(s, i, mobCount) ==
    LET useTrack == s.trackLength > 0
        useCheckpoints == Len(s.aiCheckpoints) > 0
        base == [x |-> 0, y |-> 0, angle |-> Angle(0, 0), hasPos |-> FALSE, t |-> 0,
                 speed |-> aiBaseSpeed + i * aiStepSpeed, useTrack |-> FALSE, radius |-> s.car.radius,
                 checkpointIndex |-> 0, lap |-> 1, finished |-> FALSE]
        spawn == s.aiSpawnPoints[i + 1]
        useTrackFromSpawn == useTrack /\ ~useCheckpoints
        first == s.aiCheckpoints[1]
    IN  IF i + 1 <= Len(s.aiSpawnPoints)
        THEN <<[base EXCEPT !.x = spawn.x, !.y = spawn.y, !.angle = spawn.angle, !.hasPos = TRUE,
                            !.t = IF useTrackFromSpawn THEN nearestTrackT(s, spawn.x, spawn.y) ELSE 0,
                            !.useTrack = useTrackFromSpawn]>>
        ELSE IF useTrack
        THEN <<[base EXCEPT !.t = (i * TUnit) \div mobCount, !.useTrack = TRUE]>>
        ELSE IF useCheckpoints
        THEN <<[base EXCEPT !.x = first.x, !.y = first.y, !.hasPos = TRUE]>>
        ELSE <<>>

RECURSIVE AICarsFrom(_, _, _)
AICarsFrom(s, i, mobCount) ==
    IF i >= mobCount THEN <<>> ELSE AICarFor(s, i, mobCount) \o AICarsFrom(s, i + 1, mobCount)

initAICars(s) == [s EXCEPT !.aiCars = AICarsFrom(s, 0, Mobs(s.selectedMode))]

\* one vehicle's step (lines 1315-1377); the waypoint-seeking branch of a vehicle that has waypoints
\* is not part of this model, and no specification below creates such a vehicle
AIStep(s, ai, dt) ==
    LET surfacePos == IF ai.useTrack THEN sampleTrack(s, ai.t)
                      ELSE IF ai.hasPos THEN [x |-> ai.x, y |-> ai.y, angle |-> ai.angle, none |-> FALSE]
                      ELSE NoPoint
        aiSurface == IF surfacePos.none THEN "none" ELSE getSurfaceAt(s, surfacePos.x, surfacePos.y)
        stepSpeed == IF aiSurface = "ground" THEN MulDiv(ai.speed, aiGroundPct, 100) ELSE ai.speed
    IN  CASE ai.finished -> ai
          [] ~ai.finished /\ ai.useTrack ->
                [ai EXCEPT !.t = (ai.t + MulDiv(stepSpeed * dt, 1, Max(s.trackLength, 1))) % TUnit]
          [] ~ai.finished /\ ~ai.useTrack /\ s.aiCheckpoints = <<>> -> ai

updateAICars(s, dt) ==
    LET Step(ai) == AIStep(s, ai, dt)
    IN  IF s.aiCars = <<>> \/ s.countdownActive THEN s
        ELSE [s EXCEPT !.aiCars = MapSeq(Step, s.aiCars)]

captureRadius == 26

\* Faulty variant: the lap grows at every captured waypoint.
WaypointStepLapEachCapture(s, ai, moved) ==
    LET target == s.aiCheckpoints[(ai.checkpointIndex % Len(s.aiCheckpoints)) + 1]
        dx == target.x - ai.x
        dy == target.y - ai.y
        at == [ai EXCEPT !.x = moved.x, !.y = moved.y]
        next == ai.checkpointIndex + 1
    IN  IF dx * dx + dy * dy < captureRadius * captureRadius
        THEN [at EXCEPT !.checkpointIndex = IF next >= Len(s.aiCheckpoints) THEN 0 ELSE next,
                        !.lap = ai.lap + 1,
                        !.finished = ai.lap + 1 > s.raceLaps]
        ELSE at

\* lines 1329-1376 for a vehicle that seeks waypoints. targetDist is taken before the vehicle
\* moves (line 1333). The steering, the move and the pushes of lines 1334-1365 work on arbitrary
\* headings and are not computed here: moved is the position they leave the vehicle at, given
\* by the caller, and the heading is left as it was.
WaypointStep(s, ai, moved) ==
    LET target == s.aiCheckpoints[(ai.checkpointIndex % Len(s.aiCheckpoints)) + 1]
        dx == target.x - ai.x
        dy == target.y - ai.y
        at == [ai EXCEPT !.x = moved.x, !.y = moved.y]
        next == ai.checkpointIndex + 1
    IN  IF dx * dx + dy * dy < captureRadius * captureRadius
        THEN IF next >= Len(s.aiCheckpoints)
             THEN [at EXCEPT !.checkpointIndex = 0, !.lap = ai.lap + 1,
                             !.finished = ai.lap + 1 > s.raceLaps]
             ELSE [at EXCEPT !.checkpointIndex = next]
        ELSE at

\* Faulty variant: a finished vehicle is not passed over.
AIStepToFinishedToo(s, ai, dt, moved) ==
    IF ai.useTrack \/ s.aiCheckpoints = <<>> THEN AIStep(s, ai, dt)
    ELSE WaypointStep(s, ai, moved)

\* one vehicle's step (lines 1315-1377), a waypoint-seeking vehicle ending its move at moved
AIStepTo(s, ai, dt, moved) ==
    IF ai.finished \/ ai.useTrack \/ s.aiCheckpoints = <<>> THEN AIStep(s, ai, dt)
    ELSE WaypointStep(s, ai, moved)

\* updateAICars, vehicle i ending its move at moved[i]
updateAICarsTo(s, dt, moved) ==
    IF s.aiCars = <<>> \/ s.countdownActive THEN s
    ELSE [s EXCEPT !.aiCars = [i \in DOMAIN s.aiCars |-> AIStepTo(s, s.aiCars[i], dt, moved[i])]]

-----------------------------------------------------------------------------
(* loop: one animation frame; gap is now - lastTime in milliseconds *)

\* lines 1704-1717
CountdownStep(s, gap) ==
    LET t == s.countdownElapsed + gap
    IN  IF ~s.countdownActive THEN s
        ELSE IF t < countdownDuration THEN [s EXCEPT !.countdownElapsed = t]
        ELSE [s EXCEPT !.countdownActive = FALSE, !.countdownElapsed = 0, !.timerStart = "set"]

\* lines 1722-1727
TimerStep(s) == IF s.started /\ ~s.countdownActive THEN [s EXCEPT !.timerStart = "set"] ELSE s

\* lines 1719-1727 for the p = [s, o] of the frame's updatePhysics call
AfterPhysics(p, dt) == [s |-> TimerStep(updateAICars(p.s, dt)), o |-> p.o]

\* [s, o]: the state after the frame and the locals of its updatePhysics call
loop(s, in, gap) ==
    AfterPhysics(updatePhysics(CountdownStep(s, gap), in, Min(gap, maxDtMs)), Min(gap, maxDtMs))

-----------------------------------------------------------------------------
(* The asynchronous handlers: init (lines 1739-1788) and the btnStart click handler (1837-1868).  *)
(* A handler is suspended at an await that leaves the thread: the asset images, requestFullscreen, *)
(* the car image, fetch, res.json(), a tileset image, a compressed layer's decompression. An await *)
(* of a value that is already settled (decodeLayerData of an array or of uncompressed base64, the  *)
(* return of loadTiledMap to its caller) resumes in the same task, before any frame or event.      *)

\* the fields a map load may assign, with the player's race progress
LiveModel(s) ==
    [tiledTilesetMeta |-> s.tiledTilesetMeta, tiledTilesetImages |-> s.tiledTilesetImages,
     tiledMapTileWidth |-> s.tiledMapTileWidth, tiledMapTileHeight |-> s.tiledMapTileHeight,
     tiledMapWidth |-> s.tiledMapWidth, tiledMapHeight |-> s.tiledMapHeight,
     worldWidth |-> s.worldWidth, worldHeight |-> s.worldHeight,
     tiledTrackTiles |-> s.tiledTrackTiles, tiledTileLayers |-> s.tiledTileLayers,
     trackPath |-> s.trackPath, trackWidth |-> s.trackWidth,
     obstacles |-> s.obstacles, checkpoints |-> s.checkpoints,
     aiSpawnPoints |-> s.aiSpawnPoints, aiCheckpoints |-> s.aiCheckpoints,
     raceLaps |-> s.raceLaps, lap |-> s.lap,
     currentCheckpoint |-> s.currentCheckpoint, lastCheckpointIndex |-> s.lastCheckpointIndex]

NoMap == MapDoc("none", 0, 0, <<>>, <<>>)

\* a handler: before and after are the live model when its loadTiledMap call began and returned,
\* nth is the position of that call among all loadTiledMap calls (0 while it has not been made)
Task(kind, pc, s) ==
    [kind |-> kind, pc |-> pc, map |-> NoMap, loc |-> NoLocals, at |-> 0, nth |-> 0,
     outcome |-> "pending", before |-> LiveModel(s), after |-> LiveModel(s)]

\* the handler calls loadTiledMap, which runs to its fetch (lines 177-179)
LoadCalled(s, task, ts) ==
    [task EXCEPT !.pc = "fetch", !.before = LiveModel(s),
                 !.nth = Cardinality({j \in DOMAIN ts : ts[j].nth > 0}) + 1]

\* Faulty variant: the race start leaves the checkpoint progress as it finds it.
StartRaceKeepingProgress(s) ==
    LET s1 == respawnToCheckpoint([s EXCEPT !.lap = 1], 0 - 1)
    IN  [s1 EXCEPT !.timerStart = "null", !.countdownActive = TRUE, !.countdownElapsed = 0,
                   !.car.speed = 0, !.started = TRUE, !.menuHidden = TRUE]

\* lines 1855-1867
StartRace(s) ==
    LET s1 == respawnToCheckpoint([s EXCEPT !.lap = 1, !.currentCheckpoint = 0,
                                            !.lastCheckpointIndex = 0 - 1], 0 - 1)
    IN  [s1 EXCEPT !.timerStart = "null", !.countdownActive = TRUE, !.countdownElapsed = 0,
                   !.car.speed = 0, !.started = TRUE, !.menuHidden = TRUE]

\* what the caller does once loadTiledMap has returned: lines 1783-1787 and the then() of init,
\* lines 1851-1867 of the click handler
AfterLoad(s, kind) ==
    IF kind = "init" THEN [buildTrackSegments(s) EXCEPT !.loopRunning = TRUE]
    ELSE StartRace(initAICars(buildTrackSegments(s)))

\* loadTiledMap returns (normally, by "return" or through its catch) and the caller resumes
EndLoad(s, task, outcome) ==
    [s |-> AfterLoad(s, task.kind),
     task |-> [task EXCEPT !.pc = "done", !.outcome = outcome, !.after = LiveModel(s),
                           !.loc = NoLocals, !.at = 0]]

\* the layer loop has stopped with r = [s, loc, at, thrown]: the catch, lines 415-430, or an await
LayersRun(task, r) ==
    IF r.thrown THEN EndLoad(r.s, [task EXCEPT !.loc = r.loc], "failed")
    ELSE IF r.at > Len(task.map.layers)
    THEN EndLoad(Finalized(r.s, r.loc), [task EXCEPT !.loc = r.loc], "loaded")
    ELSE [s |-> r.s, task |-> [task EXCEPT !.loc = r.loc, !.pc = "decode", !.at = r.at]]

\* the layer loop from layer i
RunLayers(s, task, i) == LayersRun(task, LayersFrom(s, task.loc, task.map, i))

\* the image loop has reached tileset n: an await, or lines 220-239 and the layer loop
AwaitImage(s, task, n) ==
    IF n > Len(task.loc.tilesetMeta) THEN RunLayers(Published(s, task.loc, task.map), task, 1)
    ELSE [s |-> s, task |-> [task EXCEPT !.pc = "image", !.at = n]]

\* the image loop from tileset i
AwaitImages(s, task, i) == AwaitImage(s, task, NextImage(task.loc.tilesetMeta, i))

\* what the last frame and the race so far did
ObsInit == [tick |-> NoTick, frames |-> 0, passed |-> <<>>, cycles |-> 0]

NoFn == [kind |-> "none"]

\* handler i has run from its await to its next one (or to its end), giving r = [s, task]
Advance(i, r) ==
    \E x \in {r} :
        /\ g' = x.s
        /\ tasks' = [tasks EXCEPT ![i] = x.task]
        /\ obs' = IF x.task.pc = "done" /\ x.task.kind = "start" THEN ObsInit ELSE obs
        /\ UNCHANGED fn

\* init: both Promise.all of lines 1759-1764 have resolved; loadTiledMap is called
AssetsLoaded ==
    \E i \in DOMAIN tasks :
        /\ tasks[i].pc = "assets"
        /\ Advance(i, [s |-> g, task |-> LoadCalled(g, tasks[i], tasks)])

\* a click on btnStart in landscape, up to its first await (lines 1838-1840)
Click(maxClicks) ==
    /\ g.loopRunning /\ ~g.menuHidden
    /\ Len(tasks) < 1 + maxClicks
    /\ tasks' = Append(tasks, Task("start", "fullscreen", g))
    /\ UNCHANGED <<g, obs, fn>>

\* requestFullscreen has settled; the selections are read (lines 1841-1845)
FullscreenDone(modes) ==
    \E i \in DOMAIN tasks, mode \in modes :
        /\ tasks[i].pc = "fullscreen"
        /\ Advance(i, [s |-> [g EXCEPT !.selectedMode = mode], task |-> [tasks[i] EXCEPT !.pc = "carImage"]])

\* the car image has settled; loadTiledMap is called (lines 1846-1850)
CarImageDone ==
    \E i \in DOMAIN tasks :
        /\ tasks[i].pc = "carImage"
        /\ Advance(i, [s |-> g, task |-> LoadCalled(g, tasks[i], tasks)])

\* fetch has resolved with one of the documents the server may hold (lines 179-181)
FetchResolved(bootDocs, startDocs) ==
    \E i \in DOMAIN tasks :
        \E doc \in (IF tasks[i].kind = "init" THEN bootDocs ELSE startDocs) :
            /\ tasks[i].pc = "fetch"
            /\ Advance(i, IF doc.ok THEN [s |-> g, task |-> [tasks[i] EXCEPT !.pc = "json", !.map = doc]]
                          ELSE EndLoad(g, [tasks[i] EXCEPT !.map = doc], "failed"))

\* res.json() has settled (lines 181-203)
JsonResolved ==
    \E i \in DOMAIN tasks :
        /\ tasks[i].pc = "json"
        /\ Advance(i, IF tasks[i].map.jsonOk
                      THEN AwaitImages(LapsApplied(g, tasks[i].map),
                                       [tasks[i] EXCEPT !.loc.tilesetMeta = TilesetMetaOf(tasks[i].map)], 1)
                      ELSE EndLoad(g, tasks[i], "failed"))

\* a tileset image has settled (lines 207-208)
ImageResolved ==
    \E i \in DOMAIN tasks :
        LET task == tasks[i]
            ts == task.loc.tilesetMeta[task.at]
            got == IF ts.imgOk THEN [task EXCEPT !.loc.tilesetImages = @ \cup {ts.firstgid}] ELSE task
        IN  /\ task.pc = "image"
            /\ Advance(i, AwaitImages(g, got, task.at + 1))

\* a compressed layer's decompression has settled (lines 142-149, 242-253)
DecodeResolved ==
    \E i \in DOMAIN tasks :
        LET task == tasks[i]
            layer == task.map.layers[task.at]
        IN  /\ task.pc = "decode"
            /\ Advance(i, IF layer.payload = "async"
                          THEN RunLayers(g, [task EXCEPT !.loc = TileLayerApplied(task.loc, layer)], task.at + 1)
                          ELSE EndLoad(g, task, "failed"))

\* the accepted crossings since the last completed cycle, kept beside the program's own tracker
PassedAfter(passed, crossedIndex, n) ==
    IF crossedIndex # Len(passed) THEN passed
    ELSE IF Len(passed) + 1 >= n THEN <<>>
    ELSE Append(passed, crossedIndex)

\* an animation frame (lines 1701-1730)
Frame(inputs, gaps) ==
    \E in \in inputs, gap \in gaps : \E r \in {loop(g, in, gap)} :
        LET n == Len(g.checkpoints)
            completes == r.o.ran /\ r.o.crossedIndex = Len(obs.passed) /\ Len(obs.passed) + 1 >= n
        IN  /\ g.loopRunning
            /\ r.o.ran => g.lap < MaxLap
            /\ r.o.ran => /\ r.s.car.x >= 0 /\ r.s.car.x <= ArenaMax
                          /\ r.s.car.y >= 0 /\ r.s.car.y <= ArenaMax
            /\ r.s.aiCars # <<>> /\ r.o.ran => obs.frames < MaxAIFrames
            /\ g' = r.s
            /\ obs' = [tick |-> r.o,
                       frames |-> IF r.s.aiCars # <<>> /\ r.o.ran THEN obs.frames + 1 ELSE obs.frames,
                       passed |-> IF r.o.ran THEN PassedAfter(obs.passed, r.o.crossedIndex, n) ELSE obs.passed,
                       cycles |-> IF completes THEN obs.cycles + 1 ELSE obs.cycles]
            /\ UNCHANGED <<tasks, fn>>

-----------------------------------------------------------------------------
(* The race specification: init loads a map, one click starts a time trial on a straight road    *)
(* that runs west, with four checkpoint lines two pixels apart.                                *)

FrameGap == 33

Up == [NoInput EXCEPT !.up = TRUE]

Down == [NoInput EXCEPT !.down = TRUE]

CarAt(x, y, rotation) == [Obj("car", x, y, 0, 0) EXCEPT !.hasRotation = TRUE, !.rotation = rotation]

RoadTiles == <<Tileset(1, "road", TRUE, TRUE, 4)>>

WestLines == <<CheckpointN(0, 10, 0, 0, 32), CheckpointN(1, 8, 0, 0, 32),
               CheckpointN(2, 6, 0, 0, 32), CheckpointN(3, 4, 0, 0, 32)>>

\* the car starts east of every line
MapWest ==
    MapDoc("west", 2, 1, RoadTiles,
           <<TileLayer("road", "async", <<1, 1>>, 2, 1),
             ObjectLayer("objects", <<CarAt(40, 16, 180)>> \o WestLines)>>)

\* the car starts between lines 1 and 2
MapMid ==
    MapDoc("mid", 2, 1, RoadTiles,
           <<TileLayer("road", "async", <<1, 1>>, 2, 1),
             ObjectLayer("objects", <<CarAt(7, 16, 180)>> \o WestLines)>>)

Boot == <<Task("init", "assets", InitG)>>

Init ==
    /\ g = InitG
    /\ tasks = Boot
    /\ obs = ObsInit
    /\ fn = NoFn

Next ==
    \/ AssetsLoaded
    \/ Click(1)
    \/ FullscreenDone({"time_trial"})
    \/ CarImageDone
    \/ FetchResolved({MapWest}, {MapWest, MapMid})
    \/ JsonResolved
    \/ ImageResolved
    \/ DecodeResolved
    \/ Frame({Up, Down}, {FrameGap})

Spec == Init /\ [][Next]_vars

-----------------------------------------------------------------------------
(* The checkpoint tracker (updatePhysics, lines 1017-1038) *)

\* this step is a frame whose updatePhysics call ran
IsTick == tasks' = tasks /\ obs'.tick.ran

\* the car stands still where a respawn put it
InSpawnPose(s) == s.car.speed = 0 /\ s.lastX = s.car.x /\ s.lastY = s.car.y

TrackerUnchanged ==
    /\ g'.currentCheckpoint = g.currentCheckpoint
    /\ g'.lastCheckpointIndex = g.lastCheckpointIndex
    /\ g'.lap = g.lap

\* C1: in a player tick with N checkpoints currentCheckpoint stays or becomes (old + 1) mod N, it
\* changes only when the crossed index equals the old currentCheckpoint, and a crossed index greater
\* than currentCheckpoint respawns the car and leaves currentCheckpoint, lastCheckpointIndex and lap
\* as they were.
C1_TrackerStep ==
    (IsTick /\ Len(g.checkpoints) > 0) =>
        /\ g'.currentCheckpoint \in {g.currentCheckpoint, (g.currentCheckpoint + 1) % Len(g.checkpoints)}
        /\ g'.currentCheckpoint # g.currentCheckpoint => obs'.tick.crossedIndex = g.currentCheckpoint
        /\ obs'.tick.crossedIndex > g.currentCheckpoint => InSpawnPose(g') /\ TrackerUnchanged

C1_NextAdvancesByOne == [][C1_TrackerStep]_vars

\* four checkpoints, checkpoint 2 crossed while 0 was expected: the car is respawned and 0 is still expected
C1_SkipRespawned ==
    /\ obs.tick.ran /\ obs.tick.crossedIndex = 2 /\ Len(g.checkpoints) = 4
    /\ g.currentCheckpoint = 0 /\ g.lap = 1 /\ InSpawnPose(g)

\* the checkpoints 0 .. n-1 in order
RECURSIVE InOrder(_)
InOrder(n) == IF n <= 0 THEN <<>> ELSE Append(InOrder(n - 1), n - 1)

\* C2: lap increases by exactly 1 in the tick that crosses checkpoint N-1 after the checkpoints
\* 0 .. N-2 have been crossed in order since the previous increment, and that tick resets
\* currentCheckpoint to 0; in every other tick lap does not change.
C2_LapStep ==
    (IsTick /\ Len(g.checkpoints) > 0) =>
        IF /\ obs'.tick.crossedIndex = Len(g.checkpoints) - 1
           /\ obs.passed = InOrder(Len(g.checkpoints) - 1)
        THEN g'.lap = g.lap + 1 /\ g'.currentCheckpoint = 0
        ELSE g'.lap = g.lap

C2_LapPerFullCycle == [][C2_LapStep]_vars

\* from lap 1, the crossings 0, 1, 2, 3 of four checkpoints: lap 2, and 0 is expected
C2_SecondLap ==
    /\ obs.tick.ran /\ obs.tick.crossedIndex = 3 /\ Len(g.checkpoints) = 4
    /\ obs.cycles = 1 /\ g.lap = 2 /\ g.currentCheckpoint = 0

\* the point p lies backOffset from the midpoint of the line cp, on the perpendicular through it
OnPerpendicular(p, cp) ==
    /\ (p.x - MidX(cp)) * (p.x - MidX(cp)) + (p.y - MidY(cp)) * (p.y - MidY(cp)) = backOffset * backOffset
    /\ (p.x - MidX(cp)) * (cp.x2 - cp.x1) + (p.y - MidY(cp)) * (cp.y2 - cp.y1) = 0

\* the car of s stands at the spawn of checkpoint index, heading at the midpoint of the following one
AtCheckpointSpawn(s, index) ==
    /\ HasCheckpoint(s, index)
    /\ OnPerpendicular(s.car, s.checkpoints[index + 1])
    /\ s.car.angle = Atan2(MidY(s.checkpoints[((index + 1) % Len(s.checkpoints)) + 1]) - s.car.y,
                           MidX(s.checkpoints[((index + 1) % Len(s.checkpoints)) + 1]) - s.car.x)
    /\ s.car.speed = 0

AtStartSpawn(s) ==
    /\ s.car.x = s.startSpawn.x /\ s.car.y = s.startSpawn.y
    /\ s.car.angle = s.startSpawn.angle /\ s.car.speed = 0

\* C3 as stated: whenever the crossed index is greater than currentCheckpoint, the tick ends with
\* the car at the spawn of checkpoint lastCheckpointIndex, heading at the midpoint of the following
\* checkpoint, at speed 0.
C3_RespawnStepAsStated ==
    (IsTick /\ obs'.tick.crossedIndex > g.currentCheckpoint) => AtCheckpointSpawn(g', g.lastCheckpointIndex)

C3_RespawnAtLastPassed == [][C3_RespawnStepAsStated]_vars

\* C3, amended: that holds when a checkpoint has been passed (lastCheckpointIndex >= 0); before the
\* first checkpoint is passed (lastCheckpointIndex = -1) the car is put on the start spawn with the
\* start spawn's heading, at speed 0.
C3_RespawnStep ==
    (IsTick /\ obs'.tick.crossedIndex > g.currentCheckpoint) =>
        IF g.lastCheckpointIndex >= 0
        THEN AtCheckpointSpawn(g', g.lastCheckpointIndex)
        ELSE AtStartSpawn(g')

C3_RespawnAtLastPassedOrStart == [][C3_RespawnStep]_vars

\* a skip after checkpoint 0 was passed has put the car on checkpoint 0's spawn
C3_RespawnedBehindPassed ==
    /\ obs.tick.ran /\ obs.tick.crossedIndex > g.currentCheckpoint
    /\ g.lastCheckpointIndex = 0 /\ AtCheckpointSpawn(g, 0)

\* C4: a tick whose crossed index is less than currentCheckpoint leaves currentCheckpoint,
\* lastCheckpointIndex and lap unchanged, does not respawn, and leaves the car with the position,
\* heading and speed that integration and collision produced.
C4_RecrossStep ==
    (IsTick /\ obs'.tick.crossedIndex >= 0 /\ obs'.tick.crossedIndex < g.currentCheckpoint) =>
        /\ TrackerUnchanged
        /\ g'.car.x = obs'.tick.moved.x /\ g'.car.y = obs'.tick.moved.y
        /\ g'.car.angle = obs'.tick.moved.angle /\ g'.car.speed = obs'.tick.moved.speed
        /\ g'.lastX = g.car.x /\ g'.lastY = g.car.y

C4_RecrossIsNoOp == [][C4_RecrossStep]_vars

\* a moving car has crossed again a checkpoint it had passed
C4_Recrossed ==
    /\ obs.tick.ran /\ obs.tick.crossedIndex >= 0 /\ obs.tick.crossedIndex < g.currentCheckpoint
    /\ g.car.speed # 0 /\ g.car.x # g.lastX

-----------------------------------------------------------------------------
(* The race with AI vehicles: the same road with a centerline south of it, mode "race" *)

TrackPathAt(x, y, polyline) == [Obj("track_path", x, y, 0, 0) EXCEPT !.hasPolyline = TRUE, !.polyline = polyline]

\* a centerline 33 pixels south of the car's lane, running west
MapTrack ==
    MapDoc("track", 2, 1, RoadTiles,
           <<TileLayer("road", "async", <<1, 1>>, 2, 1),
             ObjectLayer("track", <<TrackPathAt(40, 49, <<Pt(0, 0), Pt(0 - 40, 0)>>)>>),
             ObjectLayer("objects", <<CarAt(40, 16, 180)>> \o WestLines)>>)

NextAI ==
    \/ AssetsLoaded
    \/ Click(1)
    \/ FullscreenDone({"race"})
    \/ CarImageDone
    \/ FetchResolved({MapWest}, {MapTrack})
    \/ JsonResolved
    \/ ImageResolved
    \/ DecodeResolved
    \/ Frame({Up, Down}, {FrameGap})

SpecAI == Init /\ [][NextAI]_vars

\* C8: a frame in which the countdown is active changes neither the player's nor any AI vehicle's
\* position, heading, speed, progress t, checkpoint index, lap or finished flag, nor the player's
\* checkpoint progress; updatePhysics runs only in a frame in which the countdown has elapsed.
C8_CountdownStep ==
    /\ (tasks' = tasks /\ g'.countdownActive) =>
           /\ g'.car = g.car /\ g'.aiCars = g.aiCars /\ TrackerUnchanged
           /\ ~obs'.tick.ran
    /\ (tasks' = tasks /\ g.countdownActive /\ ~g'.countdownActive) =>
           g.countdownElapsed + FrameGap >= countdownDuration

C8_CountdownHoldsVehicles == [][C8_CountdownStep]_vars

\* the countdown is running with both AI vehicles on the grid and frames have passed
C8_CountingDown ==
    /\ g.started /\ g.countdownActive /\ g.countdownElapsed >= 2 * FrameGap
    /\ Len(g.aiCars) = 2 /\ g.car.speed = 0

-----------------------------------------------------------------------------
(* Map loads that fail, and loads in flight while frames run and while another load begins: init *)
(* is served a good or a bad document, then btnStart is clicked up to MaxClicks times while the    *)
(* menu is showing, and frames arrive SlowGap apart with no input.                              *)

SlowGap == 1200

FiveLaps == [kind |-> "number", value |-> 5 * LapUnit]

\* the server answers 404
MapUnreachable == [MapWest EXCEPT !.id = "unreachable", !.ok = FALSE]

\* the body is not JSON
MapBadJson == [MapWest EXCEPT !.id = "badjson", !.jsonOk = FALSE]

\* the tile layer, after the object layer, names a compression DecompressionStream does not know
MapBadCompression ==
    [MapDoc("badcompression", 3, 1, RoadTiles,
            <<ObjectLayer("objects", <<CarAt(40, 16, 180)>> \o WestLines),
              TileLayer("road", "syncThrow", <<>>, 3, 1)>>) EXCEPT !.laps = FiveLaps]

\* the tile layer's compressed stream is corrupt
MapCorrupt ==
    [MapDoc("corrupt", 3, 1, RoadTiles,
            <<TileLayer("road", "asyncThrow", <<>>, 3, 1),
              ObjectLayer("objects", <<CarAt(40, 16, 180)>> \o WestLines)>>) EXCEPT !.laps = FiveLaps]

\* three tiles of road, five laps, two checkpoint lines
MapLong ==
    [MapDoc("long", 3, 1, RoadTiles,
            <<TileLayer("road", "async", <<1, 1, 1>>, 3, 1),
              ObjectLayer("objects", <<CarAt(40, 16, 180), CheckpointN(0, 10, 0, 0, 32),
                                       CheckpointN(1, 8, 0, 0, 32)>>)>>) EXCEPT !.laps = FiveLaps]

NextLoad ==
    \/ AssetsLoaded
    \/ Click(MaxClicks)
    \/ FullscreenDone({"time_trial"})
    \/ CarImageDone
    \/ FetchResolved({MapWest, MapUnreachable, MapBadJson, MapBadCompression, MapCorrupt},
                     {MapWest, MapLong})
    \/ JsonResolved
    \/ ImageResolved
    \/ DecodeResolved
    \/ Frame({NoInput}, {SlowGap})

SpecLoad == Init /\ [][NextLoad]_vars

\* the race as the player sees it
RaceState(s) ==
    [started |-> s.started, countdownActive |-> s.countdownActive,
     countdownElapsed |-> s.countdownElapsed, timerStart |-> s.timerStart,
     car |-> s.car, aiCars |-> s.aiCars, menuHidden |-> s.menuHidden]

InLoad(task) == task.pc \in {"fetch", "json", "image", "decode"}

\* C5: when init's map load has failed (response not ok, JSON parse error, an exception while
\* decoding a tile layer, an unsupported compression format), every live model field is exactly
\* as it was before the load started.
C5_FailedLoadLeavesModel == tasks[1].outcome = "failed" => tasks[1].after = tasks[1].before

\* init's load has failed after it had assigned the lap count
C5_FailedAfterAssigning ==
    /\ tasks[1].outcome = "failed" /\ tasks[1].map.id = "badcompression"
    /\ tasks[1].after.raceLaps = 5 /\ tasks[1].before.raceLaps = defaultRaceLaps

\* C6: in every state in which a frame may run (the loop is running) while the only load is the
\* first start handler's, suspended at one of its awaits, every live model field is as it was when
\* that load started: nothing of the new model is visible to a frame before the load's last
\* asynchronous operation has resolved.
C6_FrameSeesOldModel ==
    (g.loopRunning /\ Len(tasks) = 2 /\ InLoad(tasks[2])) => LiveModel(g) = tasks[2].before

\* a frame can run while the load is suspended with the new lap count over the old layers
C6_MixedModel ==
    /\ Len(tasks) = 2 /\ tasks[2].pc = "decode" /\ tasks[2].map.id = "long" /\ g.loopRunning
    /\ g.raceLaps = 5 /\ g.tiledMapWidth = 3
    /\ g.tiledTileLayers = tasks[2].before.tiledTileLayers /\ g.tiledTileLayers # <<>>

\* C7: once a later start handler has called loadTiledMap, no step of an earlier start handler
\* changes the live model, the lap count, the checkpoint progress or the running race.
C7_SupersededStep ==
    \A a, b \in DOMAIN tasks :
        (/\ tasks[a].kind = "start" /\ tasks[b].kind = "start"
         /\ 0 < tasks[a].nth /\ tasks[a].nth < tasks[b].nth
         /\ tasks'[a] # tasks[a]) =>
            /\ LiveModel(g') = LiveModel(g)
            /\ RaceState(g') = RaceState(g)

C7_SupersededLoadDiscarded == [][C7_SupersededStep]_vars

\* the earlier handler has finished after the later one: its map is live and the race the later
\* one started has been started again
C7_EarlierFinishedLast ==
    /\ Len(tasks) = 3 /\ tasks[2].pc = "done" /\ tasks[3].pc = "done"
    /\ tasks[2].nth < tasks[3].nth
    /\ tasks[2].map.id = "west" /\ tasks[3].map.id = "long"
    /\ tasks[3].after.raceLaps = 5 /\ Len(tasks[3].after.checkpoints) = 2
    /\ Len(g.checkpoints) = 4 /\ g.countdownActive /\ g.countdownElapsed = 0

-----------------------------------------------------------------------------
(* The player's speed on its own. In updatePhysics the speed after a call depends on the speed    *)
(* before it, the throttle, dt, the surface under the car (lines 945-957), on how many obstacles  *)
(* and AI vehicles the collision loops hit (lines 982, 989, 1002) and on whether the tracker      *)
(* respawned the car (line 926), and on nothing else; here each of these is an input of the tick. *)

MaxObstacleHits == 1
MaxAIHits == 1

RECURSIVE DampedTimes(_, _, _)
DampedTimes(speed, pct, hits) == IF hits <= 0 THEN speed ELSE DampedTimes(Damp(speed, pct), pct, hits - 1)

DynInputs ==
    {NoInput, Up, Down,
     [NoInput EXCEPT !.up = TRUE, !.left = TRUE],
     [NoInput EXCEPT !.brakePedal = TRUE, !.right = TRUE],
     [NoInput EXCEPT !.accelPedal = TRUE, !.stickX = 500],
     [NoInput EXCEPT !.up = TRUE, !.down = TRUE, !.stickX = 0 - 1000]}

\* the speed at the end of a tick
SpeedAfterTick(speed, in, dt, surface, obstacleHits, aiHits, respawn) ==
    IF respawn THEN 0
    ELSE DampedTimes(DampedTimes(SpeedAfterThrottle(speed, Throttle(in), dt, surface),
                                 obstacleDampPct, obstacleHits),
                     aiDampPct, aiHits)

InitDyn ==
    /\ g = InitG
    /\ tasks = <<>>
    /\ obs = ObsInit
    /\ fn = [kind |-> "dyn", speed |-> 0, surface |-> "none"]

DynTick ==
    \E in \in DynInputs, dt \in {16, maxDtMs}, surface \in {"road", "ground", "none"},
       obstacleHits \in 0 .. MaxObstacleHits, aiHits \in 0 .. MaxAIHits, respawn \in BOOLEAN :
        /\ fn' = [kind |-> "dyn",
                  speed |-> SpeedAfterTick(fn.speed, in, dt, surface, obstacleHits, aiHits, respawn),
                  surface |-> surface]
        /\ UNCHANGED <<g, tasks, obs>>

NextDyn == DynTick

SpecDyn == InitDyn /\ [][NextDyn]_vars

\* C9: after any number of ticks the speed lies in [-maxSpeed/2, maxSpeed], and at the end of a
\* tick on "ground" it lies in [-0.55*maxSpeed/2, 0.55*maxSpeed].
C9_SpeedWithinLimits ==
    /\ 2 * fn.speed >= 0 - maxSpeed /\ fn.speed <= maxSpeed
    /\ fn.surface = "ground" =>
           /\ 200 * fn.speed >= 0 - groundMaxSpeedPct * maxSpeed
           /\ 100 * fn.speed <= groundMaxSpeedPct * maxSpeed

\* a car that came fast onto the ground is at the ground limit after the tick
C9_AtGroundLimit == fn.surface = "ground" /\ 100 * fn.speed = groundMaxSpeedPct * maxSpeed

-----------------------------------------------------------------------------
(* The collision kernel on its own: a circle against a rectangle or another circle, resolved the  *)
(* way updatePhysics uses the kernel (lines 976-1005): the test first, the push only on a hit.    *)

GeomSpan == 12
GeomRadii == {6, carRadius}
GeomRect == Rect(0 - 4, 0 - 4, 8, 8)

GeomInputs ==
    [kind : {"geom"}, shape : {"rect", "circle"},
     c : [x : (0 - GeomSpan) .. GeomSpan, y : (0 - GeomSpan) .. GeomSpan],
     r : GeomRadii, push : {Pt(0, 0)}, resolved : {FALSE}]

InitGeom ==
    /\ g = InitG
    /\ tasks = <<>>
    /\ obs = ObsInit
    /\ fn \in GeomInputs

\* lines 978-981 and 985-988: circleRectCollision, then resolveCircleRect
ResolveRect ==
    /\ fn.shape = "rect" /\ ~fn.resolved
    /\ circleRectCollision(fn.c.x, fn.c.y, fn.r, GeomRect.x, GeomRect.y, GeomRect.w, GeomRect.h)
    /\ fn' = [fn EXCEPT !.resolved = TRUE,
                        !.push = resolveCircleRect(fn.c.x, fn.c.y, fn.r,
                                                   GeomRect.x, GeomRect.y, GeomRect.w, GeomRect.h)]
    /\ UNCHANGED <<g, tasks, obs>>

\* lines 996-1001: circleCircleCollision, then resolveCircleCollision, the other circle at the
\* origin with the same radius
ResolveCircle ==
    /\ fn.shape = "circle" /\ ~fn.resolved
    /\ circleCircleCollision(fn.c, Pt(0, 0), fn.r + fn.r)
    /\ fn' = [fn EXCEPT !.resolved = TRUE,
                        !.push = resolveCircleCollision(fn.c, Pt(0, 0), fn.r + fn.r)]
    /\ UNCHANGED <<g, tasks, obs>>

NextGeom == ResolveRect \/ ResolveCircle

SpecGeom == InitGeom /\ [][NextGeom]_vars

\* the circle's centre after the push
Moved == Pt(fn.c.x + fn.push.x, fn.c.y + fn.push.y)

\* squared distance from the moved centre to the nearest point of the rectangle
MovedToRectSq ==
    LET dx == Moved.x - clamp(Moved.x, GeomRect.x, GeomRect.x + GeomRect.w)
        dy == Moved.y - clamp(Moved.y, GeomRect.y, GeomRect.y + GeomRect.h)
    IN  dx * dx + dy * dy

MovedToCircleSq == Moved.x * Moved.x + Moved.y * Moved.y

\* C10: for every overlapping configuration, the centre inside the rectangle included, the push
\* returned by resolveCircleRect / resolveCircleCollision separates the shapes: the moved centre
\* is at least r from the nearest rectangle point, respectively at least the sum of the radii
\* from the other centre (to within the 2 px that whole-pixel arithmetic can lose).
C10_PushSeparates ==
    fn.resolved =>
        /\ fn.shape = "rect" => MovedToRectSq >= (fn.r - 2) * (fn.r - 2)
        /\ fn.shape = "circle" => MovedToCircleSq >= (fn.r + fn.r - 2) * (fn.r + fn.r - 2)

\* a circle whose centre lies inside the rectangle has been resolved and not moved at all
C10_InsideNotMoved ==
    /\ fn.resolved /\ fn.shape = "rect"
    /\ fn.c.x > GeomRect.x /\ fn.c.x < GeomRect.x + GeomRect.w
    /\ fn.c.y > GeomRect.y /\ fn.c.y < GeomRect.y + GeomRect.h
    /\ fn.push = Pt(0, 0)

-----------------------------------------------------------------------------
(* The obstacle loop of updatePhysics (lines 976-992) on its own: the integration step has put   *)
(* the car on or near a circular obstacle at (100, 100) with r = 18.                             *)

ObstacleSpan == 6

ObstacleAt == Circle(100, 100, defaultObstacleRadius)

MovedCars ==
    [x : (ObstacleAt.x - ObstacleSpan) .. (ObstacleAt.x + ObstacleSpan),
     y : (ObstacleAt.y - ObstacleSpan) .. (ObstacleAt.y + ObstacleSpan),
     angle : {Angle(0, 0)}, speed : {0, 100}, radius : {carRadius}, collided : {FALSE}]

InitObstacle ==
    /\ g = InitG
    /\ tasks = <<>>
    /\ obs = ObsInit
    /\ fn \in [kind : {"obstacle"}, from : MovedCars, car : MovedCars, passed : {FALSE}]
    /\ fn.car = fn.from

ObstacleLoop ==
    /\ ~fn.passed
    /\ fn' = [fn EXCEPT !.passed = TRUE, !.car = ObstaclePass(fn.from, <<ObstacleAt>>, 1)]
    /\ UNCHANGED <<g, tasks, obs>>

NextObstacle == ObstacleLoop

SpecObstacle == InitObstacle /\ [][NextObstacle]_vars

CarToObstacleSq ==
    (fn.car.x - ObstacleAt.x) * (fn.car.x - ObstacleAt.x) + (fn.car.y - ObstacleAt.y) * (fn.car.y - ObstacleAt.y)

\* C11: a vehicle of radius 18 moved exactly onto the centre of the obstacle circle (100, 100, r = 18)
\* is pushed by a translation of length 36: it ends at distance exactly 36 from the obstacle centre.
C11_CoincidentPushedToContact ==
    (fn.passed /\ fn.from.x = ObstacleAt.x /\ fn.from.y = ObstacleAt.y) =>
        CarToObstacleSq = (carRadius + ObstacleAt.r) * (carRadius + ObstacleAt.r)

\* the coincident vehicle has been through the loop: a hit was recorded and it has not moved
C11_CoincidentNotMoved ==
    /\ fn.passed /\ fn.from.x = ObstacleAt.x /\ fn.from.y = ObstacleAt.y
    /\ fn.car.collided /\ fn.car.x = ObstacleAt.x /\ fn.car.y = ObstacleAt.y

-----------------------------------------------------------------------------
(* Tileset lookup: the loader's tileset list (lines 188-202) built from tilesets given in any    *)
(* order, then findTilesetForGid (lines 211-218) and getSurfaceFromGid (lines 1097-1112) for a   *)
(* raw tile id.                                                                                  *)

MaxTilesets == 3
MaxGid == 12

FLIP_V == 1073741824
FLIP_D == 536870912

\* the tilesets a map may list: the name tells the surface, so each tileset is told by its surface
TilesetChoices ==
    {Tileset(1, "road", FALSE, FALSE, 4), Tileset(5, "grass", FALSE, FALSE, 4),
     Tileset(9, "props", FALSE, FALSE, 4)}

TilesetLists == UNION {[1 .. n -> TilesetChoices] : n \in 0 .. MaxTilesets}

InitTileset ==
    /\ g = InitG
    /\ tasks = <<>>
    /\ obs = ObsInit
    /\ fn \in [kind : {"tileset"}, tilesets : TilesetLists,
               rawGid : {low + flips : low \in 0 .. MaxGid, flips \in {0, FLIP_D, FLIP_V, FLIP_V + FLIP_D}},
               chosen : {0}, surface : {"none"}, tiles : {<<>>}, looked : {FALSE}]

\* lines 272-297: what the loader adds to newTiles for a tile object with the raw id, every tileset
\* image being loaded
TileObjectPlaced(meta, rawGid) ==
    ObjectApplied([s |-> InitG,
                   loc |-> [NoLocals EXCEPT !.tilesetMeta = meta,
                                            !.tilesetImages = {meta[i].firstgid : i \in DOMAIN meta}],
                   newObstacles |-> <<>>, foundObjects |-> FALSE],
                  [Obj("", 0, 0, defaultTile, defaultTile) EXCEPT !.gid = rawGid]).loc.newTiles

\* the list is built and published, then the lookups run for the id
TilesetLookup ==
    \E meta \in {TilesetMetaOf(MapDoc("tilesets", 1, 1, fn.tilesets, <<>>))} :
        /\ ~fn.looked
        /\ fn' = [fn EXCEPT !.looked = TRUE,
                            !.chosen = LET i == findTilesetForGid(meta, MaskGid(fn.rawGid))
                                       IN  IF i = 0 THEN 0 ELSE meta[i].firstgid,
                            !.surface = getSurfaceFromGid([g EXCEPT !.tiledTilesetMeta = meta], fn.rawGid),
                            !.tiles = TileObjectPlaced(meta, fn.rawGid)]
        /\ UNCHANGED <<g, tasks, obs>>

NextTileset == TilesetLookup

SpecTileset == InitTileset /\ [][NextTileset]_vars

\* the firstgids of the listed tilesets that do not exceed the masked id
FirstgidsUpTo == {fn.tilesets[i].firstgid : i \in DOMAIN fn.tilesets} \cap (0 .. (fn.rawGid % FLIP_D))

LargestFirstgid == CHOOSE f \in FirstgidsUpTo : \A h \in FirstgidsUpTo : h <= f

\* C12: for tilesets listed in any order and any masked id, the loader's lookup and the surface
\* lookup choose the tileset with the largest firstgid that does not exceed the id, and choose
\* none when the id is smaller than every firstgid.
C12_LargestFirstgidChosen ==
    fn.looked =>
        IF FirstgidsUpTo = {} THEN fn.chosen = 0 /\ fn.surface = "none"
        ELSE /\ fn.chosen = LargestFirstgid
             /\ fn.surface = (CASE LargestFirstgid = 1 -> "road" [] LargestFirstgid = 5 -> "ground"
                                [] OTHER -> "none")

\* tilesets listed in descending order, a flipped id that belongs to the middle one
C12_DescendingListLooked ==
    /\ fn.looked /\ Len(fn.tilesets) = 3
    /\ fn.tilesets[1].firstgid = 9 /\ fn.tilesets[2].firstgid = 5 /\ fn.tilesets[3].firstgid = 1
    /\ fn.rawGid = FLIP_V + 7 /\ fn.chosen = 5 /\ fn.surface = "ground"

\* the tilecount of the listed tileset with this firstgid
TilecountOf(firstgid) ==
    (CHOOSE ts \in {fn.tilesets[i] : i \in DOMAIN fn.tilesets} : ts.firstgid = firstgid).tilecount

\* C13: for every raw tile id that resolves to a tileset, the id with the flip bits cleared minus
\* that tileset's firstgid is a local id in [0, tilecount) of the resolved tileset.
C13_LocalIdWithinTilecount ==
    fn.looked =>
        \A k \in DOMAIN fn.tiles :
            fn.tiles[k].tileId >= 0 /\ fn.tiles[k].tileId < TilecountOf(fn.tiles[k].firstgid)

\* a flipped id past the only tileset's four tiles has been placed with local id 6
C13_PastLastTile ==
    /\ fn.looked /\ Len(fn.tilesets) = 1 /\ fn.tilesets[1].firstgid = 1 /\ fn.tilesets[1].tilecount = 4
    /\ fn.rawGid = FLIP_D + 7
    /\ Len(fn.tiles) = 1 /\ fn.tiles[1].firstgid = 1 /\ fn.tiles[1].tileId = 6

-----------------------------------------------------------------------------
(* sampleTrack on centerlines of axis-aligned legs, for every t in thousandths from 0 to 1       *)

\* the centerline of the scenario
CornerPath == <<Pt(0, 0), Pt(100, 0), Pt(100, 100)>>

\* one leg to the west; a repeated point and a turn back; a closed loop
Centerlines ==
    {CornerPath,
     <<Pt(40, 49), Pt(0, 49)>>,
     <<Pt(10, 10), Pt(10, 50), Pt(10, 50), Pt(50, 50), Pt(50, 20)>>,
     <<Pt(0, 0), Pt(30, 0), Pt(30, 20), Pt(0, 20), Pt(0, 0)>>}

InitTrack ==
    /\ g = InitG
    /\ tasks = <<>>
    /\ obs = ObsInit
    /\ fn \in [kind : {"track"}, path : Centerlines, t : 0 .. TUnit,
               totalLength : {0}, point : {NoPoint}, sampled : {FALSE}]

\* buildTrackSegments for the centerline, then sampleTrack(t)
TrackSampled ==
    \E s \in {buildTrackSegments([g EXCEPT !.trackPath = fn.path])} :
        /\ ~fn.sampled
        /\ fn' = [fn EXCEPT !.sampled = TRUE, !.totalLength = s.trackLength,
                            !.point = sampleTrack(s, fn.t)]
        /\ UNCHANGED <<g, tasks, obs>>

NextTrack == TrackSampled

SpecTrack == InitTrack /\ [][NextTrack]_vars

\* the length of an axis-aligned polyline
RECURSIVE PathLength(_)
PathLength(path) ==
    IF Len(path) < 2 THEN 0
    ELSE Abs(path[2].x - path[1].x) + Abs(path[2].y - path[1].y) + PathLength(Tail(path))

\* quarter turns of the direction from a to b
Heading(a, b) ==
    CASE b.x > a.x -> 0 [] b.y > a.y -> 1 [] b.x < a.x -> 2 [] b.y < a.y -> 0 - 1

\* the point at arc length d (in thousandths of a pixel) along the polyline, at its whole pixels,
\* with the heading of the leg that holds it; q is the heading of the last leg walked
RECURSIVE AtArcLength(_, _, _)
AtArcLength(path, d, q) ==
    IF Len(path) < 2 THEN [x |-> path[1].x, y |-> path[1].y, q |-> q]
    ELSE LET a == path[1]
             b == path[2]
             len == Abs(b.x - a.x) + Abs(b.y - a.y)
         IN  IF len = 0 THEN AtArcLength(Tail(path), d, q)
             ELSE IF d <= len * TUnit
             THEN [x |-> a.x + Sign(b.x - a.x) * (d \div TUnit),
                   y |-> a.y + Sign(b.y - a.y) * (d \div TUnit), q |-> Heading(a, b)]
             ELSE AtArcLength(Tail(path), d - len * TUnit, Heading(a, b))

\* C14: for every centerline and every t in [0, 1], sampleTrack(t) is the point at arc length
\* t * totalLength along the built segments with the heading of the segment that holds it;
\* sampleTrack(0) is the first centerline point and sampleTrack(1) the last; for
\* (0,0)-(100,0)-(100,100) totalLength is 200, sampleTrack(0.25) = (50, 0) with heading 0 and
\* sampleTrack(0.75) = (100, 50) with heading pi/2.
C14_SampleAtArcLength ==
    fn.sampled =>
        LET want == AtArcLength(fn.path, fn.t * PathLength(fn.path), 0)
            first == fn.path[1]
            last == fn.path[Len(fn.path)]
        IN  /\ fn.totalLength = PathLength(fn.path)
            /\ ~fn.point.none
            /\ fn.point.x = want.x /\ fn.point.y = want.y /\ fn.point.angle = Angle(want.q, 0)
            /\ fn.t = 0 => fn.point.x = first.x /\ fn.point.y = first.y
            /\ fn.t = TUnit => fn.point.x = last.x /\ fn.point.y = last.y
            /\ fn.path = CornerPath =>
                   /\ fn.totalLength = 200
                   /\ fn.t = 250 => fn.point = [x |-> 50, y |-> 0, angle |-> Angle(0, 0), none |-> FALSE]
                   /\ fn.t = 750 => fn.point = [x |-> 100, y |-> 50, angle |-> Angle(1, 0), none |-> FALSE]

\* the scenario's centerline sampled at three quarters
C14_CornerAtThreeQuarters ==
    /\ fn.sampled /\ fn.path = CornerPath /\ fn.t = 750
    /\ fn.point.x = 100 /\ fn.point.y = 50 /\ fn.point.angle.q = 1

-----------------------------------------------------------------------------
(* The map-level "laps" property: init loads the straight road with the property absent, a      *)
(* string, or a number between -MaxLapTenths and MaxLapTenths tenths.                           *)

MaxLapTenths == 45

LapProperties ==
    {NoLaps, [kind |-> "string", value |-> 0]}
        \cup {[kind |-> "number", value |-> v] : v \in (0 - MaxLapTenths) .. MaxLapTenths}

LapDocs == {[MapWest EXCEPT !.id = "laps", !.laps = l] : l \in LapProperties}

NextLaps ==
    \/ AssetsLoaded
    \/ FetchResolved(LapDocs, {})
    \/ JsonResolved
    \/ ImageResolved
    \/ DecodeResolved

SpecLaps == Init /\ [][NextLaps]_vars

\* floor of a value given in tenths, as the whole number k with k <= v/10 < k + 1
WholeLaps(v) == CHOOSE k \in (0 - MaxLapTenths) .. MaxLapTenths : k * LapUnit <= v /\ v < (k + 1) * LapUnit

\* C15: after a map load the lap count is max(1, floor(v)) if the map has a numeric "laps"
\* property with value v > 0; a "laps" property that is absent, not a number or not positive leaves
\* the lap count as it was.
C15_LapsFromPositiveNumber ==
    tasks[1].outcome = "loaded" =>
        IF tasks[1].map.laps.kind = "number" /\ tasks[1].map.laps.value > 0
        THEN g.raceLaps = Max(1, WholeLaps(tasks[1].map.laps.value))
        ELSE g.raceLaps = tasks[1].before.raceLaps

\* a map with laps = 0 has been loaded over the default of three laps
C15_ZeroLapsLoaded ==
    /\ tasks[1].outcome = "loaded" /\ tasks[1].map.laps = [kind |-> "number", value |-> 0]
    /\ tasks[1].before.raceLaps = defaultRaceLaps /\ g.raceLaps = 1

-----------------------------------------------------------------------------
(* Checkpoint order: init loads a map whose checkpointN objects are met in any order and are     *)
(* split in any way over an object layer before the compressed tile layer and one after it.      *)

MaxCheckpoints == 3

DeclaredIndices == {0, 2, 5, 11}

\* the line of the object named checkpointN: each N has a line of its own
LineN(n) == CheckpointN(n, 4 + 2 * n, 0, 0, 32)

\* the orders in which up to MaxCheckpoints different indices may be met
MetOrders ==
    UNION {{o \in [1 .. n -> DeclaredIndices] : \A i, j \in 1 .. n : i # j => o[i] # o[j]} :
           n \in 1 .. MaxCheckpoints}

CheckpointDoc(order, split) ==
    MapDoc("checkpoints", 2, 1, RoadTiles,
           <<ObjectLayer("early", MapSeq(LineN, SubSeq(order, 1, split))),
             TileLayer("road", "async", <<1, 1>>, 2, 1),
             ObjectLayer("objects", <<CarAt(40, 16, 180)>> \o MapSeq(LineN, SubSeq(order, split + 1, Len(order))))>>)

CheckpointDocs == UNION {{CheckpointDoc(o, k) : k \in 0 .. Len(o)} : o \in MetOrders}

NextCheckpoints ==
    \/ AssetsLoaded
    \/ FetchResolved(CheckpointDocs, {})
    \/ JsonResolved
    \/ ImageResolved
    \/ DecodeResolved

SpecCheckpoints == Init /\ [][NextCheckpoints]_vars

\* the checkpointN objects of init's document, in the order the loader meets them
MetLines ==
    LET IsLine(o) == o.name = "checkpointN"
    IN  FilterSeq(IsLine, tasks[1].map.layers[1].objects \o tasks[1].map.layers[3].objects)

\* the place of index n among the declared indices of the document, counted from 1
RankOf(n) == Cardinality({i \in DOMAIN MetLines : MetLines[i].idx < n}) + 1

\* C16: after a successful load of a map whose checkpoints are checkpointN objects, whatever the
\* order and the layer in which they are met, position k of the published list holds the segment
\* of the object with the k-th smallest N, and the tracker's indices are 0 .. N-1 without a gap.
C16_CheckpointsSortedByIndex ==
    (tasks[1].outcome = "loaded" /\ tasks[1].map.id = "checkpoints") =>
        /\ DOMAIN g.checkpoints = 1 .. Len(MetLines)
        /\ \A i \in DOMAIN MetLines :
               g.checkpoints[RankOf(MetLines[i].idx)] =
                   Seg(MetLines[i].x, MetLines[i].y, MetLines[i].x + MetLines[i].width,
                       MetLines[i].y + MetLines[i].height)
        /\ g.currentCheckpoint = 0 /\ g.lastCheckpointIndex = 0 - 1

\* indices met as 11, 0, 5, the first of them in the early layer, are published as 0, 5, 11
C16_ShuffledAcrossLayers ==
    /\ tasks[1].outcome = "loaded" /\ tasks[1].map.id = "checkpoints"
    /\ Len(tasks[1].map.layers[1].objects) = 1
    /\ Len(MetLines) = 3 /\ MetLines[1].idx = 11 /\ MetLines[2].idx = 0 /\ MetLines[3].idx = 5
    /\ g.checkpoints = <<Seg(4, 0, 4, 32), Seg(14, 0, 14, 32), Seg(26, 0, 26, 32)>>

-----------------------------------------------------------------------------
(* Maps without gameplay objects: init loads the straight road or a map that is tile art only,   *)
(* then each click on btnStart loads a map that is tile art only.                                *)

\* a tile placed as an object (lines 272-297): no gameplay object
TileObject(gid, x, y) == [Obj("", x, y, defaultTile, defaultTile) EXCEPT !.gid = gid]

\* a road drawn by a tile layer and by tile objects, and nothing else
MapTileArt ==
    MapDoc("tileart", 2, 1, RoadTiles,
           <<TileLayer("road", "async", <<1, 1>>, 2, 1),
             ObjectLayer("tiles", <<TileObject(1, 0, 32), TileObject(2, 32, 32)>>)>>)

\* a road drawn by a tile layer alone
MapLayersOnly == MapDoc("layersonly", 2, 1, RoadTiles, <<TileLayer("road", "async", <<1, 1>>, 2, 1)>>)

NextTileArt ==
    \/ AssetsLoaded
    \/ Click(MaxClicks)
    \/ FullscreenDone({"time_trial"})
    \/ CarImageDone
    \/ FetchResolved({MapWest, MapTileArt, MapLayersOnly}, {MapTileArt, MapLayersOnly})
    \/ JsonResolved
    \/ ImageResolved
    \/ DecodeResolved
    \/ Frame({NoInput}, {SlowGap})

SpecTileArt == Init /\ [][NextTileArt]_vars

\* C17: after loading a map that draws its track with tiles and has no recognized gameplay object,
\* the obstacle list and the checkpoint list are both empty, whatever was loaded before it.
C17_TileArtClearsLists ==
    \A i \in DOMAIN tasks :
        (tasks[i].outcome = "loaded" /\ tasks[i].map.id \in {"tileart", "layersonly"}) =>
            tasks[i].after.obstacles = <<>> /\ tasks[i].after.checkpoints = <<>>

\* the tile-art map has been loaded after the straight road and the road's four lines are still live
C17_LinesOutliveTheirMap ==
    /\ Len(tasks) = 2 /\ tasks[1].map.id = "west" /\ tasks[2].map.id = "tileart"
    /\ tasks[2].outcome = "loaded"
    /\ Len(tasks[2].after.checkpoints) = 4 /\ tasks[2].after.tiledTrackTiles # <<>>

-----------------------------------------------------------------------------
(* Waypoint-seeking AI vehicles: a race of two vehicles over one to three waypoints and one or   *)
(* two laps, no centerline and no AI spawn points, so that initAICars puts both vehicles on the  *)
(* first waypoint (lines 1265-1277). A tick may leave a vehicle at any of the sample points.      *)

MaxRaceLaps == 2

Waypoints == <<Pt(0, 0), Pt(100, 0), Pt(100, 100)>>

\* on a waypoint, 25 and 26 away from one, and between them
SamplePoints == {Pt(0, 0), Pt(25, 0), Pt(26, 0), Pt(100, 0), Pt(100, 25), Pt(100, 100)}

RaceOver(waypoints, laps) ==
    initAICars([InitG EXCEPT !.aiCheckpoints = waypoints, !.raceLaps = laps, !.obstacles = <<>>,
                             !.selectedMode = "race", !.started = TRUE, !.menuHidden = TRUE,
                             !.loopRunning = TRUE, !.timerStart = "set"])

InitWaypoints ==
    /\ g \in {RaceOver(SubSeq(Waypoints, 1, w), laps) : w \in 1 .. Len(Waypoints), laps \in 1 .. MaxRaceLaps}
    /\ tasks = <<>>
    /\ obs = ObsInit
    /\ fn = NoFn

\* the updateAICars call of a frame (line 1720)
AITick ==
    \E moved \in [DOMAIN g.aiCars -> SamplePoints] :
        /\ g' = updateAICarsTo(g, maxDtMs, moved)
        /\ UNCHANGED <<tasks, obs, fn>>

NextWaypoints == AITick

SpecWaypoints == InitWaypoints /\ [][NextWaypoints]_vars

\* vehicle i is within the capture radius of its target waypoint
WithinCapture(i) ==
    LET ai == g.aiCars[i]
        target == g.aiCheckpoints[ai.checkpointIndex + 1]
    IN  (target.x - ai.x) * (target.x - ai.x) + (target.y - ai.y) * (target.y - ai.y) < 26 * 26

\* index, lap and finished of vehicle i after a capture, as the statement has them
CapturedStep(i) ==
    LET W == Len(g.aiCheckpoints)
        old == g.aiCars[i]
        new == g'.aiCars[i]
    IN  /\ new.checkpointIndex = (old.checkpointIndex + 1) % W
        /\ new.lap = IF new.checkpointIndex = 0 THEN old.lap + 1 ELSE old.lap
        /\ new.finished = (new.lap > g.raceLaps)

ProgressKept(i) ==
    /\ g'.aiCars[i].checkpointIndex = g.aiCars[i].checkpointIndex
    /\ g'.aiCars[i].lap = g.aiCars[i].lap
    /\ g'.aiCars[i].finished = g.aiCars[i].finished

C18_StepAsStated ==
    \A i \in DOMAIN g.aiCars :
        /\ IF WithinCapture(i) THEN CapturedStep(i) ELSE ProgressKept(i)
        /\ g'.aiCars[i].checkpointIndex \in 0 .. (Len(g.aiCheckpoints) - 1)

\* C18 as stated: in every tick in which a waypoint-seeking vehicle is within the capture radius
\* (26) of its target the index becomes (index + 1) mod W, the lap grows by one exactly when the
\* index wraps to 0 and finished is true exactly when the new lap exceeds the race length; in any
\* other tick index, lap and finished are unchanged; the index is always in [0, W).
C18_CaptureAdvancesAlways == [][C18_StepAsStated]_vars

C18_Step ==
    \A i \in DOMAIN g.aiCars :
        /\ IF WithinCapture(i) /\ ~g.aiCars[i].finished THEN CapturedStep(i) ELSE ProgressKept(i)
        /\ g'.aiCars[i].checkpointIndex \in 0 .. (Len(g.aiCheckpoints) - 1)

\* C18: in every tick in which a waypoint-seeking vehicle that has not finished is within the
\* capture radius (26) of its target, the index becomes (index + 1) mod W, the lap grows by one
\* exactly when the index wraps to 0 and finished is true exactly when the new lap exceeds the
\* race length; in any other tick, and in every tick of a finished vehicle, index, lap and
\* finished are unchanged; the index is always in [0, W).
C18_CaptureAdvancesUntilFinished == [][C18_Step]_vars

\* over three waypoints and two laps, one vehicle has finished and the other is in its second lap
C18_OneFinishedOneRacing ==
    /\ Len(g.aiCheckpoints) = 3 /\ g.raceLaps = 2
    /\ g.aiCars[1].finished /\ g.aiCars[1].lap = 3 /\ g.aiCars[1].checkpointIndex = 0
    /\ ~g.aiCars[2].finished /\ g.aiCars[2].lap = 2 /\ g.aiCars[2].checkpointIndex = 2

-----------------------------------------------------------------------------
(* AI vehicles created on AI spawn points beside a centerline (initAICars, lines 1235-1250): the *)
(* race map has the centerline from (40, 49) west to (0, 49), two ai_spawn objects and no        *)
(* checkpointN, so that each vehicle takes its t from nearestTrackT.                             *)

AISpawn(x, y) == Obj("ai_spawn", x, y, 0, 0)

SpawnDoc(id, spawns) ==
    MapDoc(id, 2, 1, RoadTiles,
           <<TileLayer("road", "async", <<1, 1>>, 2, 1),
             ObjectLayer("track", <<TrackPathAt(40, 49, <<Pt(0, 0), Pt(0 - 40, 0)>>)>>),
             ObjectLayer("objects", <<CarAt(40, 16, 180)>> \o spawns)>>)

\* both spawn points beside the centerline
MapSpawnsBeside == SpawnDoc("beside", <<AISpawn(30, 52), AISpawn(20, 46)>>)

\* the second spawn point lies past the west end of the centerline
MapSpawnPastEnd == SpawnDoc("pastend", <<AISpawn(30, 52), AISpawn(0 - 6, 49)>>)

NextSpawn ==
    \/ AssetsLoaded
    \/ Click(1)
    \/ FullscreenDone({"race"})
    \/ CarImageDone
    \/ FetchResolved({MapWest}, {MapSpawnsBeside, MapSpawnPastEnd})
    \/ JsonResolved
    \/ ImageResolved
    \/ DecodeResolved
    \/ Frame({Up, Down}, {FrameGap})

SpecSpawn == Init /\ [][NextSpawn]_vars

\* C19: the progress t of every track-parametric AI vehicle satisfies 0 <= t < 1, at creation
\* (from the nearest-track projection of its spawn point or from i / mobCount) and after every
\* tick.
C19_ProgressBelowOne ==
    \A i \in DOMAIN g.aiCars :
        g.aiCars[i].useTrack => 0 <= g.aiCars[i].t /\ g.aiCars[i].t < TUnit

\* the race has started with the second vehicle created at t = 1
C19_CreatedAtOne ==
    /\ g.started /\ g.countdownActive /\ Len(g.aiCars) = 2
    /\ g.aiCars[1].useTrack /\ g.aiCars[1].t = 250
    /\ g.aiCars[2].useTrack /\ g.aiCars[2].t = TUnit

-----------------------------------------------------------------------------
(* A race started over a race: btnStart is clicked twice while the menu shows, in mode "race";   *)
(* the first handler to finish starts a race that is driven until the other one finishes.        *)

\* the road with its centerline, the car two pixels east of the first line
MapRestart ==
    MapDoc("restart", 2, 1, RoadTiles,
           <<TileLayer("road", "async", <<1, 1>>, 2, 1),
             ObjectLayer("track", <<TrackPathAt(40, 49, <<Pt(0, 0), Pt(0 - 40, 0)>>)>>),
             ObjectLayer("objects", <<CarAt(12, 16, 180)>> \o WestLines)>>)

NextRestart ==
    \/ AssetsLoaded
    \/ Click(MaxClicks)
    \/ FullscreenDone({"race"})
    \/ CarImageDone
    \/ FetchResolved({MapWest}, {MapRestart, MapLayersOnly})
    \/ JsonResolved
    \/ ImageResolved
    \/ DecodeResolved
    \/ Frame({Up}, {FrameGap})

SpecRestart == Init /\ [][NextRestart]_vars

\* this step is the end of a start handler
StartCompletes == \E i \in DOMAIN tasks : tasks[i].kind = "start" /\ tasks[i].pc # "done" /\ tasks'[i].pc = "done"

C20_StartStep ==
    StartCompletes =>
        /\ g'.lap = 1 /\ g'.currentCheckpoint = 0 /\ g'.lastCheckpointIndex = 0 - 1
        /\ g'.car.speed = 0
        /\ g'.car.x = g'.startSpawn.x /\ g'.car.y = g'.startSpawn.y /\ g'.car.angle = g'.startSpawn.angle
        /\ g'.timerStart = "null"
        /\ g'.countdownActive /\ g'.countdownElapsed = 0 /\ g'.started
        /\ \A k \in DOMAIN g'.aiCars :
               /\ g'.aiCars[k].checkpointIndex = 0 /\ g'.aiCars[k].lap = 1 /\ ~g'.aiCars[k].finished
               /\ g'.aiCars[k].t = ((k - 1) * TUnit) \div Len(g'.aiCars)

\* C20: when a race start completes, lap = 1, the next checkpoint is 0, the last passed index is
\* -1, the player's speed is 0 and its pose the start spawn, the elapsed time is 0, the countdown
\* is active and every AI vehicle is newly created at checkpoint index 0, lap 1, not finished:
\* nothing of a previous race's progress survives.
C20_StartResetsRace == [][C20_StartStep]_vars

\* the second start has completed over a race in which the player had passed a checkpoint and
\* the AI vehicles had moved on: all of it is reset
C20_RestartedOverProgress ==
    /\ Len(tasks) = 3 /\ tasks[2].pc = "done" /\ tasks[3].pc = "done"
    /\ \E i \in {2, 3} : tasks[i].after.currentCheckpoint > 0 /\ tasks[i].after.lastCheckpointIndex >= 0
    /\ g.currentCheckpoint = 0 /\ g.lastCheckpointIndex = 0 - 1 /\ g.lap = 1
    /\ g.countdownActive /\ g.countdownElapsed = 0
    /\ Len(g.aiCars) = 2 /\ g.aiCars[1].t = 0 /\ g.aiCars[2].t = 500

-----------------------------------------------------------------------------
(* One checkpoint per tick (updatePhysics, lines 1017-1038) *)

\* the indices of the checkpoints of s that the segment (x1, y1)-(x2, y2) meets
Intersected(s, x1, y1, x2, y2) ==
    {i \in 0 .. Len(s.checkpoints) - 1 :
        LET cp == s.checkpoints[i + 1]
        IN  segmentIntersect(x1, y1, x2, y2, cp.x1, cp.y1, cp.x2, cp.y2)}

LowestOf(indices) == IF indices = {} THEN 0 - 1 ELSE CHOOSE i \in indices : \A j \in indices : i <= j

\* the lowest checkpoint met by this tick's movement, from the position before the tick to the
\* position after the collision loops
LowestCrossed ==
    LowestOf(Intersected(g, g.car.x, g.car.y, obs'.tick.moved.x, obs'.tick.moved.y))

C21_TickStep ==
    (IsTick /\ Len(g.checkpoints) > 0) =>
        /\ obs'.tick.crossedIndex = LowestCrossed
        /\ LowestCrossed = g.currentCheckpoint =>
               /\ g'.lastCheckpointIndex = LowestCrossed
               /\ g'.currentCheckpoint = (g.currentCheckpoint + 1) % Len(g.checkpoints)
               /\ ~obs'.tick.respawned
        /\ LowestCrossed > g.currentCheckpoint => obs'.tick.respawned /\ InSpawnPose(g') /\ TrackerUnchanged
        /\ LowestCrossed < g.currentCheckpoint =>
               /\ TrackerUnchanged /\ ~obs'.tick.respawned
               /\ g'.car.x = obs'.tick.moved.x /\ g'.car.y = obs'.tick.moved.y

\* C21: a player tick evaluates one checkpoint, the lowest index among the checkpoints met by the
\* movement from the previous position to the position after the collisions; progress and respawn
\* follow from that index alone, whatever other checkpoints the same movement meets.
C21_LowestCrossedDecides == [][C21_TickStep]_vars

\* a tick whose movement met two checkpoints, one of them the expected one, and only the lower
\* index, already passed, was evaluated: nothing was accepted
C21_TwoMetLowerEvaluated ==
    /\ obs.tick.ran /\ ~obs.tick.respawned
    /\ Cardinality(Intersected(g, g.lastX, g.lastY, g.car.x, g.car.y)) >= 2
    /\ g.currentCheckpoint \in Intersected(g, g.lastX, g.lastY, g.car.x, g.car.y)
    /\ obs.tick.crossedIndex < g.currentCheckpoint

-----------------------------------------------------------------------------
(* The published obstacle list (loadTiledMap, lines 268-270, 339-367, 399-403, 423-430): init    *)
(* loads a map, then one click on btnStart loads another; no two loads overlap.                  *)

ObstacleObj(x, y, radius) == [Obj("obstacle", x, y, 0, 0) EXCEPT !.radius = radius]

\* two layers with obstacles, a tile layer between them, and a last layer whose only barrier has no width
MapBarriers ==
    MapDoc("barriers", 2, 1, RoadTiles,
           <<ObjectLayer("limits", <<ObstacleObj(20, 20, 0 - 1), Obj("tracklimit", 0, 0, 4, 32)>>),
             TileLayer("road", "async", <<1, 1>>, 2, 1),
             ObjectLayer("cones", <<ObstacleObj(30, 10, 5)>>),
             ObjectLayer("objects", <<CarAt(40, 16, 180), Obj("tracklimitbox", 0, 0, 0, 32)>>)>>)

\* the compressed stream of the tile layer fails between two layers with obstacles
MapBarrierThenCorrupt ==
    MapDoc("barriercorrupt", 2, 1, RoadTiles,
           <<ObjectLayer("limits", <<Obj("tracklimit2", 0, 0, 6, 6)>>),
             TileLayer("road", "asyncThrow", <<>>, 2, 1),
             ObjectLayer("cones", <<ObstacleObj(30, 10, 5)>>)>>)

NextPublish ==
    \/ AssetsLoaded
    \/ Click(1)
    \/ FullscreenDone({"time_trial"})
    \/ CarImageDone
    \/ FetchResolved({MapWest, MapBarriers, MapTileArt, MapLayersOnly},
                     {MapWest, MapBarriers, MapTileArt, MapLayersOnly, MapBarrierThenCorrupt, MapUnreachable})
    \/ JsonResolved
    \/ ImageResolved
    \/ DecodeResolved
    \/ Frame({NoInput}, {SlowGap})

SpecPublish == Init /\ [][NextPublish]_vars

\* the obstacles one object makes (lines 339-351, 359-367)
ObstaclesOfObject(o) ==
    IF o.gid >= 0 THEN <<>>
    ELSE IF o.name = "obstacle" THEN <<Circle(o.x, o.y, IF o.radius >= 0 THEN o.radius ELSE defaultObstacleRadius)>>
    ELSE IF o.name \in {"tracklimitbox", "tracklimit", "tracklimit2"} /\ o.width > 0 /\ o.height > 0
         THEN <<Rect(o.x, o.y, o.width, o.height)>>
    ELSE <<>>

RECURSIVE ObstaclesOfObjects(_)
ObstaclesOfObjects(objects) ==
    IF objects = <<>> THEN <<>> ELSE ObstaclesOfObject(Head(objects)) \o ObstaclesOfObjects(Tail(objects))

\* the obstacles of the last object layer, among the first n layers, that has any
RECURSIVE LastYield(_, _)
LastYield(map, n) ==
    IF n = 0 THEN <<>>
    ELSE IF map.layers[n].type = "objectgroup" /\ ObstaclesOfObjects(map.layers[n].objects) # <<>>
         THEN ObstaclesOfObjects(map.layers[n].objects)
    ELSE LastYield(map, n - 1)

\* the number of layers the load runs through: all of them, or those before the failure
RECURSIVE ReachedFrom(_, _)
ReachedFrom(map, i) ==
    IF i > Len(map.layers) THEN Len(map.layers)
    ELSE IF map.layers[i].payload \in {"syncThrow", "asyncThrow"} THEN i - 1
    ELSE ReachedFrom(map, i + 1)

LayersReached(map) == IF map.ok /\ map.jsonOk THEN ReachedFrom(map, 1) ELSE 0

\* this step is the return of handler i's loadTiledMap
LoadEnds(i) == tasks[i].pc # "done" /\ tasks'[i].pc = "done"

C22_LoadStepAsStated ==
    \A i \in DOMAIN tasks :
        LoadEnds(i) =>
            g'.obstacles = IF LastYield(tasks'[i].map, Len(tasks'[i].map.layers)) # <<>>
                           THEN LastYield(tasks'[i].map, Len(tasks'[i].map.layers))
                           ELSE tasks'[i].before.obstacles

\* C22 as stated: after a load the obstacle list is the obstacles of the last object layer of the
\* document that yielded any, and the previous list when no layer yielded an obstacle.
C22_ObstaclesOfLastLayer == [][C22_LoadStepAsStated]_vars

\* the load ended in lines 423-430 with placed tiles and no gameplay object seen so far
ClearedAsTileArt(i) ==
    tasks'[i].outcome = "loaded" /\ g'.tiledTrackTiles # <<>> /\ ~g'.hasMapObjects

C22_LoadStep ==
    \A i \in DOMAIN tasks :
        LoadEnds(i) =>
            g'.obstacles = IF ClearedAsTileArt(i) THEN <<>>
                           ELSE IF LastYield(tasks'[i].map, LayersReached(tasks'[i].map)) # <<>>
                           THEN LastYield(tasks'[i].map, LayersReached(tasks'[i].map))
                           ELSE tasks'[i].before.obstacles

\* C22, amended: after a load the obstacle list is empty when the load ended with placed tiles and
\* no gameplay object seen so far; otherwise it is the obstacles of the last object layer, among
\* the layers the load ran through, that yielded any, and the previous list when none did. It is
\* never a merge of two lists.
C22_ObstaclesOfLastLayerReached == [][C22_LoadStep]_vars

\* the second load replaced the four obstacles that were there by the one obstacle of the last
\* layer of its map that has any, not by the two of an earlier layer
C22_Replaced ==
    /\ Len(tasks) = 2 /\ tasks[2].pc = "done" /\ tasks[2].map.id = "barriers"
    /\ Len(tasks[2].before.obstacles) = 4
    /\ g.obstacles = <<Circle(30, 10, 5)>>

-----------------------------------------------------------------------------
(* segmentIntersect on its own (lines 884-890): the movement segment a-b of a tick against a     *)
(* checkpoint segment c-d, every end on a small grid.                                           *)

GridMax == 2

GridPoints == [x : 0 .. GridMax, y : 0 .. GridMax]

InitIntersect ==
    /\ g = InitG
    /\ tasks = <<>>
    /\ obs = ObsInit
    /\ fn \in [kind : {"intersect"}, a : GridPoints, b : GridPoints, c : GridPoints, d : GridPoints,
               tested : {FALSE}, met : {FALSE}]

\* line 1021: the call made for one checkpoint
SegmentsTested ==
    /\ fn.kind = "intersect" /\ ~fn.tested
    /\ fn' = [fn EXCEPT !.tested = TRUE,
                        !.met = segmentIntersect(fn.a.x, fn.a.y, fn.b.x, fn.b.y,
                                                 fn.c.x, fn.c.y, fn.d.x, fn.d.y)]
    /\ UNCHANGED <<g, tasks, obs>>

NextIntersect == SegmentsTested

SpecIntersect == InitIntersect /\ [][NextIntersect]_vars

\* twice the signed area of the triangle p, q, r: 0 when r is on the line through p and q
Side(p, q, r) == (q.x - p.x) * (r.y - p.y) - (q.y - p.y) * (r.x - p.x)

\* the directions of p-q and r-s are parallel (a segment of length 0 is parallel to everything)
Parallel(p, q, r, s) == (q.x - p.x) * (s.y - r.y) - (q.y - p.y) * (s.x - r.x) = 0

\* the lines through a-b and c-d meet in one point, which is neither beyond an end of a-b (t in
\* [0, 1]: a and b are not strictly on one side of c-d) nor beyond an end of c-d (u in [0, 1])
MeetWithinBoth(a, b, c, d) ==
    /\ ~Parallel(a, b, c, d)
    /\ Side(c, d, a) * Side(c, d, b) <= 0
    /\ Side(a, b, c) * Side(a, b, d) <= 0

\* C23: segmentIntersect is true exactly when the segments are not parallel and their lines meet
\* at parameters t and u both in [0, 1], endpoints included; it is false for every parallel or
\* coincident pair, so a movement segment of length 0 never meets a checkpoint.
C23_IntersectExactly ==
    fn.kind = "intersect" /\ fn.tested =>
        /\ fn.met <=> MeetWithinBoth(fn.a, fn.b, fn.c, fn.d)
        /\ Parallel(fn.a, fn.b, fn.c, fn.d) => ~fn.met
        /\ fn.a = fn.b => ~fn.met

\* the car stands on the checkpoint line and does not move: no crossing
C23_StandingOnTheLine ==
    /\ fn.kind = "intersect" /\ fn.tested /\ ~fn.met
    /\ fn.a = fn.b /\ fn.c # fn.d
    /\ Side(fn.c, fn.d, fn.a) = 0
    /\ fn.a.x = fn.c.x /\ fn.a.y = fn.c.y + 1 /\ fn.d.x = fn.c.x /\ fn.d.y = fn.c.y + 2

-----------------------------------------------------------------------------
(* Steering on its own (updatePhysics, lines 933-964): the heading after a call depends on the   *)
(* heading before it, the speed that lines 945-957 leave, the steering input and dt.            *)

SteerInputs ==
    {[t EXCEPT !.left = k = "left", !.right = k = "right"] : t \in {NoInput, Up, Down}, k \in {"left", "right"}}
        \cup {[t EXCEPT !.stickX = sx] : t \in {NoInput, Up, Down}, sx \in {0 - 1000, 0, 300}}

Headings == {Angle(0, 0), Angle(3, 250000)}

InitSteer ==
    /\ g = InitG
    /\ tasks = <<>>
    /\ obs = ObsInit
    /\ fn = [kind |-> "steer", speed |-> 0, steering |-> 0, before |-> Angle(0, 0), after |-> Angle(0, 0)]

\* lines 933-964 of one call
SteerTick ==
    \E in \in SteerInputs, dt \in {16, maxDtMs}, surface \in {"road"}, angle \in Headings :
        \E speed \in {SpeedAfterThrottle(fn.speed, Throttle(in), dt, surface)} :
            /\ fn' = [kind |-> "steer", speed |-> speed, steering |-> SteeringInput(in), before |-> angle,
                      after |-> AngleAfterSteering(angle, speed, SteeringInput(in), dt)]
            /\ UNCHANGED <<g, tasks, obs>>

NextSteer == SteerTick

SpecSteer == InitSteer /\ [][NextSteer]_vars

\* the heading change of the tick, in microradians
HeadingChange == fn.after.f - fn.before.f

\* C24: in a tick where the clamped |speed| is at or below the deadzone (5) steering does not
\* change the heading, whatever the steering input; above the deadzone the heading change has the
\* sign of the steering input when speed >= 0 and the opposite sign when speed < 0.
C24_SteeringSign ==
    /\ fn.after.q = fn.before.q
    /\ Abs(fn.speed) <= 5 => HeadingChange = 0
    /\ Abs(fn.speed) > 5 /\ fn.speed >= 0 => Sign(HeadingChange) = Sign(fn.steering)
    /\ Abs(fn.speed) > 5 /\ fn.speed < 0 => Sign(HeadingChange) = 0 - Sign(fn.steering)

\* reversing faster than the deadzone with the stick to the right: the heading turns left
C24_ReversedTurn == fn.speed < 0 - 5 /\ fn.steering = 300 /\ HeadingChange < 0

-----------------------------------------------------------------------------
(* buildTrackSegments on its own (lines 1050-1064): a centerline of up to MaxPathLen points      *)
(* replaces the built-in one and the segments are built again.                                   *)

MaxPathLen == 4

PathPoints == {Pt(0, 0), Pt(3, 0), Pt(3, 4)}

RECURSIVE PathsOfLen(_)
PathsOfLen(n) == IF n = 0 THEN {<<>>} ELSE {Append(p, q) : p \in PathsOfLen(n - 1), q \in PathPoints}

InitBuild ==
    /\ g = buildTrackSegments(InitG)
    /\ tasks = <<>>
    /\ obs = ObsInit
    /\ fn \in [kind : {"build"}, path : UNION {PathsOfLen(n) : n \in 0 .. MaxPathLen}, built : {FALSE}]

\* trackPath is assigned (line 263) and buildTrackSegments is called (lines 1783, 1851)
SegmentsBuilt ==
    /\ fn.kind = "build" /\ ~fn.built
    /\ g' = buildTrackSegments([g EXCEPT !.trackPath = fn.path])
    /\ fn' = [fn EXCEPT !.built = TRUE]
    /\ UNCHANGED <<tasks, obs>>

NextBuild == SegmentsBuilt

SpecBuild == InitBuild /\ [][NextBuild]_vars

\* the positions of the centerline whose point differs from the next one
Spans(path) == {i \in 1 .. Len(path) - 1 : path[i] # path[i + 1]}

\* the k-th of them
SpanAt(path, k) == CHOOSE i \in Spans(path) : Cardinality({j \in Spans(path) : j < i}) = k - 1

\* the sum of the lengths of segs[1 .. n]
RECURSIVE LengthUpTo(_, _)
LengthUpTo(segs, n) == IF n = 0 THEN 0 ELSE LengthUpTo(segs, n - 1) + segs[n].len

\* C25: after buildTrackSegments every retained segment has length > 0 (consecutive equal points
\* produce no segment), the segments keep the centerline's order, and trackLength is the sum of
\* the retained lengths; a centerline of fewer than 2 points yields no segments and trackLength 0.
C25_SegmentsOfCenterline ==
    fn.kind = "build" /\ fn.built =>
        /\ Len(g.trackSegments) = Cardinality(Spans(fn.path))
        /\ \A k \in DOMAIN g.trackSegments :
               LET seg == g.trackSegments[k]
                   i == SpanAt(fn.path, k)
                   sq == (seg.b.x - seg.a.x) * (seg.b.x - seg.a.x) + (seg.b.y - seg.a.y) * (seg.b.y - seg.a.y)
               IN  /\ seg.a = fn.path[i] /\ seg.b = fn.path[i + 1]
                   /\ seg.len > 0
                   /\ seg.len * seg.len <= sq /\ sq < (seg.len + 1) * (seg.len + 1)
        /\ g.trackLength = LengthUpTo(g.trackSegments, Len(g.trackSegments))
        /\ Len(fn.path) < 2 => g.trackSegments = <<>> /\ g.trackLength = 0

\* a centerline that repeats a point in the middle: two segments, of lengths 3 and 4
C25_RepeatedPointDropped ==
    /\ fn.kind = "build" /\ fn.built
    /\ fn.path = <<Pt(0, 0), Pt(3, 0), Pt(3, 0), Pt(3, 4)>>
    /\ Len(g.trackSegments) = 2 /\ g.trackSegments[2].len = 4 /\ g.trackLength = 7

-----------------------------------------------------------------------------
(* Progress against the checkpoint list: btnStart is clicked up to MaxClicks times while the     *)
(* menu shows; the race that the first handler starts is driven while the other handler's load   *)
(* is still in flight and publishes a list of another length.                                    *)

\* the car two pixels east of the first of four lines
MapNear ==
    MapDoc("near", 2, 1, RoadTiles,
           <<TileLayer("road", "async", <<1, 1>>, 2, 1),
             ObjectLayer("objects", <<CarAt(12, 16, 180)>> \o WestLines)>>)

\* two lines only, published before the tile layer is decoded
MapTwoLines ==
    MapDoc("twolines", 2, 1, RoadTiles,
           <<ObjectLayer("objects", <<CarAt(12, 16, 180), CheckpointN(0, 10, 0, 0, 32),
                                      CheckpointN(1, 8, 0, 0, 32)>>),
             TileLayer("road", "async", <<1, 1>>, 2, 1)>>)

NextProgress ==
    \/ AssetsLoaded
    \/ Click(MaxClicks)
    \/ FullscreenDone({"time_trial"})
    \/ CarImageDone
    \/ FetchResolved({MapWest}, {MapNear, MapMid, MapTwoLines})
    \/ JsonResolved
    \/ ImageResolved
    \/ DecodeResolved
    \/ Frame({Up}, {FrameGap})

SpecProgress == Init /\ [][NextProgress]_vars

\* C26: with N > 0 checkpoints, 0 <= currentCheckpoint < N and -1 <= lastCheckpointIndex < N, and
\* either lastCheckpointIndex = -1 and currentCheckpoint = 0 or currentCheckpoint =
\* (lastCheckpointIndex + 1) mod N, after any sequence of ticks, respawns, race starts and map
\* loads, a load that changes N included.
C26_ProgressWithinList ==
    Len(g.checkpoints) > 0 =>
        /\ 0 <= g.currentCheckpoint /\ g.currentCheckpoint < Len(g.checkpoints)
        /\ 0 - 1 <= g.lastCheckpointIndex /\ g.lastCheckpointIndex < Len(g.checkpoints)
        /\ \/ g.lastCheckpointIndex = 0 - 1 /\ g.currentCheckpoint = 0
           \/ g.currentCheckpoint = (g.lastCheckpointIndex + 1) % Len(g.checkpoints)

\* the race on four lines had passed three of them when the load in flight published two lines:
\* the progress is back at the start while that load awaits its tile layer
C26_ShorterListMidRace ==
    /\ Len(tasks) = 3
    /\ \E i \in {2, 3} : /\ tasks[i].pc = "decode" /\ tasks[i].map.id = "twolines"
                         /\ tasks[i].before.currentCheckpoint = 3 /\ Len(tasks[i].before.checkpoints) = 4
    /\ g.started /\ Len(g.checkpoints) = 2 /\ g.currentCheckpoint = 0 /\ g.lastCheckpointIndex = 0 - 1

-----------------------------------------------------------------------------
(* A race that goes on after the lap is counted: one click starts a time trial on the four lines *)
(* with the car two pixels east of the first; the player drives west over the lines and brakes   *)
(* into reverse.                                                                                 *)

MaxRecrossLap == 3
WestMargin == 8

\* an animation frame (lines 1701-1730) of a race followed into lap MaxRecrossLap - 1 and up to
\* WestMargin pixels west of the road
FrameBeyond(inputs, gaps) ==
    \E in \in inputs, gap \in gaps : \E r \in {loop(g, in, gap)} :
        LET n == Len(g.checkpoints)
            completes == r.o.ran /\ r.o.crossedIndex = Len(obs.passed) /\ Len(obs.passed) + 1 >= n
        IN  /\ g.loopRunning
            /\ r.o.ran => g.lap < MaxRecrossLap
            /\ r.o.ran => /\ r.s.car.x >= 0 - WestMargin /\ r.s.car.x <= ArenaMax
                          /\ r.s.car.y >= 0 /\ r.s.car.y <= ArenaMax
            /\ g' = r.s
            /\ obs' = [tick |-> r.o, frames |-> obs.frames,
                       passed |-> IF r.o.ran THEN PassedAfter(obs.passed, r.o.crossedIndex, n) ELSE obs.passed,
                       cycles |-> IF completes THEN obs.cycles + 1 ELSE obs.cycles]
            /\ UNCHANGED <<tasks, fn>>

NextRecross ==
    \/ AssetsLoaded
    \/ Click(1)
    \/ FullscreenDone({"time_trial"})
    \/ CarImageDone
    \/ FetchResolved({MapWest}, {MapNear})
    \/ JsonResolved
    \/ ImageResolved
    \/ DecodeResolved
    \/ FrameBeyond({Up, Down}, {FrameGap})

SpecRecross == Init /\ [][NextRecross]_vars

C27_RecrossStep ==
    (IsTick /\ g.lastCheckpointIndex >= 0 /\ obs'.tick.crossedIndex = g.lastCheckpointIndex) =>
        ~obs'.tick.respawned

\* C27: a tick that crosses again the checkpoint recorded as lastCheckpointIndex never respawns
\* the car, in any progress state, the state just after a lap wrap (currentCheckpoint = 0,
\* lastCheckpointIndex = N - 1) included.
C27_LastPassedNeverRespawns == [][C27_RecrossStep]_vars

\* the lap has just been counted, the car has reversed over the last line and stands respawned
\* behind it
C27_RespawnedAfterWrap ==
    /\ obs.tick.ran /\ obs.tick.respawned
    /\ obs.tick.crossedIndex = g.lastCheckpointIndex
    /\ g.lap = 2 /\ g.currentCheckpoint = 0 /\ g.lastCheckpointIndex = Len(g.checkpoints) - 1
    /\ obs.tick.moved.speed < 0 /\ obs.tick.moved.x > 4
    /\ g.car.x = 34 /\ g.car.speed = 0

-----------------------------------------------------------------------------
(* The AI waypoints beside the checkpoint list (loadTiledMap, lines 315-338, 368-396, 404-422):  *)
(* init loads a map, then one click on btnStart loads another.                                   *)

\* two indexed lines and, between them, a line given as a generic "checkpoint" object
MapMixedLines ==
    MapDoc("mixed", 2, 1, RoadTiles,
           <<TileLayer("road", "async", <<1, 1>>, 2, 1),
             ObjectLayer("objects", <<CarAt(40, 16, 180), CheckpointN(0, 10, 0, 0, 32),
                                      Obj("checkpoint", 8, 0, 0, 32), CheckpointN(2, 6, 0, 0, 32)>>)>>)

\* a road and a car, no checkpoint of any kind
MapNoLines ==
    MapDoc("nolines", 2, 1, RoadTiles,
           <<TileLayer("road", "async", <<1, 1>>, 2, 1),
             ObjectLayer("objects", <<CarAt(40, 16, 180)>>)>>)

NextCourse ==
    \/ AssetsLoaded
    \/ Click(1)
    \/ FullscreenDone({"race"})
    \/ CarImageDone
    \/ FetchResolved({MapWest, MapLong, MapMixedLines}, {MapWest, MapMixedLines, MapNoLines})
    \/ JsonResolved
    \/ ImageResolved
    \/ DecodeResolved
    \/ Frame({NoInput}, {SlowGap})

SpecCourse == Init /\ [][NextCourse]_vars

\* a load has returned and none is in flight
LoadsSettled == g.loopRunning /\ \A i \in DOMAIN tasks : tasks[i].pc \in {"fullscreen", "carImage", "done"}

MidpointOf(cp) == Pt((cp.x1 + cp.x2) \div 2, (cp.y1 + cp.y2) \div 2)

\* C28: after any sequence of map loads the AI waypoint list and the checkpoint list have the
\* same length and AI waypoint i is the midpoint of checkpoint segment i.
C28_WaypointsAreMidpoints ==
    LoadsSettled =>
        /\ Len(g.aiCheckpoints) = Len(g.checkpoints)
        /\ \A i \in DOMAIN g.aiCheckpoints : g.aiCheckpoints[i] = MidpointOf(g.checkpoints[i])

\* the race was started on the map without checkpoints after the map with four lines: the player
\* keeps the four lines, the AI vehicles have no waypoint
C28_LinesWithoutWaypoints ==
    /\ Len(tasks) = 2 /\ tasks[2].pc = "done" /\ tasks[2].map.id = "nolines"
    /\ Len(g.checkpoints) = 4 /\ g.aiCheckpoints = <<>>

-----------------------------------------------------------------------------
(* Finished AI vehicles (updateAICars, line 1315) *)

C29_FinishedStep ==
    /\ Len(g'.aiCars) = Len(g.aiCars)
    /\ \A i \in DOMAIN g.aiCars : g.aiCars[i].finished => g'.aiCars[i] = g.aiCars[i]

\* C29: once an AI vehicle's finished flag is true it stays true for the rest of the race, and in
\* every later tick its position, heading, checkpoint index and lap are unchanged, whatever the
\* updates of the other vehicles in that tick do.
C29_FinishedVehicleFrozen == [][C29_FinishedStep]_vars

\* over two waypoints and two laps the second vehicle has finished on the first waypoint, and the
\* first vehicle is elsewhere in its second lap
C29_FinishedBesideRacing ==
    /\ Len(g.aiCheckpoints) = 2 /\ g.raceLaps = 2
    /\ g.aiCars[2].finished /\ g.aiCars[2].lap = 3 /\ g.aiCars[2].x = 0 /\ g.aiCars[2].y = 0
    /\ ~g.aiCars[1].finished /\ g.aiCars[1].lap = 2 /\ g.aiCars[1].checkpointIndex = 1
    /\ g.aiCars[1].x = 100 /\ g.aiCars[1].y = 25

-----------------------------------------------------------------------------
(* The touch controls (lines 436-484, 620-624, 662-790): the steering stick, the two pedals and  *)
(* pointerMap, in the layout of a 1280 x 720 viewport. A pointer goes down, moves and goes up;   *)
(* pointer ids are 0 .. MaxPointerId, 0 being the identifier of the first touch. The stick's     *)
(* pointerId is [held, id], held = FALSE for null; valueX is in thousandths.                     *)

MaxPointerId == 2
MaxLayoutResets == 1

stickRadius == 70
stickAnchor == Pt(150, 600)
pedalAccel == Rect(1070, 302, 90, 140)
pedalBrake == Rect(1070, 460, 90, 140)

\* where a pointer may be: on the stick's axis inside and outside the zone, above the anchor, on
\* each pedal, and on the road
TouchPoints == {Pt(80, 600), Pt(115, 600), Pt(150, 600), Pt(185, 600), Pt(248, 600), Pt(249, 600),
                Pt(150, 530), Pt(1100, 350), Pt(1100, 500), Pt(600, 300)}

\* lines 450-454
JoystickInZone(x, y) ==
    LET dx == x - stickAnchor.x
        dy == y - stickAnchor.y
    IN  25 * (dx * dx + dy * dy) <= 49 * stickRadius * stickRadius

\* lines 463-476, the stick locked to the x axis
JoystickUpdate(s, x, y) ==
    LET dx == x - stickAnchor.x
        dy == y - stickAnchor.y
        dist == Hypot(dx, dy)
        vx == IF dist > stickRadius THEN MulDiv(dx * stickRadius, 1, dist) ELSE dx
    IN  [s EXCEPT !.valueX = MulDiv(vx * 1000, 1, stickRadius)]

\* lines 456-461
JoystickStart(s, pointerId, x, y) ==
    JoystickUpdate([s EXCEPT !.pointerId = [held |-> TRUE, id |-> pointerId]], x, y)

\* lines 478-484
JoystickEnd(s) == [s EXCEPT !.pointerId = [held |-> FALSE, id |-> 0], !.valueX = 0]

InRect(x, y, r) == x >= r.x /\ x <= r.x + r.w /\ y >= r.y /\ y <= r.y + r.h

\* !steeringStick.pointerId (line 730): null and 0 are both falsy
NoPointerId(p) == ~p.held \/ p.id = 0

\* lines 707-735
handlePointerDown(s, pointerId, x, y) ==
    IF InRect(x, y, pedalAccel)
    THEN [s EXCEPT !.accel = TRUE, !.pointerMap[pointerId] = "accel"]
    ELSE IF InRect(x, y, pedalBrake)
    THEN [s EXCEPT !.brake = TRUE, !.pointerMap[pointerId] = "brake"]
    ELSE IF NoPointerId(s.pointerId) /\ JoystickInZone(x, y)
    THEN [JoystickStart(s, pointerId, x, y) EXCEPT !.pointerMap[pointerId] = "stick"]
    ELSE s

\* lines 737-744
handlePointerMove(s, pointerId, x, y) ==
    IF s.pointerMap[pointerId] = "stick" THEN JoystickUpdate(s, x, y) ELSE s

\* lines 746-757
handlePointerUp(s, pointerId) ==
    LET stick == s.pointerMap[pointerId]
        s1 == CASE stick = "accel" -> [s EXCEPT !.accel = FALSE]
                [] stick = "brake" -> [s EXCEPT !.brake = FALSE]
                [] stick = "stick" -> JoystickEnd(s)
                [] OTHER -> s
    IN  [s1 EXCEPT !.pointerMap[pointerId] = "none"]

\* lines 700-704: the end of updateJoystickAnchors, the layout being the same as before
updateJoystickAnchors(s) == [JoystickEnd(s) EXCEPT !.accel = FALSE, !.brake = FALSE]

\* the controls after construction and the first layout; pressed is the set of pointers that are
\* down, layouts the number of later calls of updateJoystickAnchors
InitStick ==
    /\ g = InitG
    /\ tasks = <<>>
    /\ obs = ObsInit
    /\ fn = [kind |-> "stick", pointerId |-> [held |-> FALSE, id |-> 0], valueX |-> 0,
             pointerMap |-> [id \in 0 .. MaxPointerId |-> "none"], accel |-> FALSE, brake |-> FALSE,
             pressed |-> {}, layouts |-> 0]

Controls(s) == [kind |-> "stick", pointerId |-> s.pointerId, valueX |-> s.valueX, pointerMap |-> s.pointerMap,
                accel |-> s.accel, brake |-> s.brake, pressed |-> fn.pressed, layouts |-> fn.layouts]

\* pointerdown / touchstart (lines 759, 769-772)
PointerDown ==
    \E id \in (0 .. MaxPointerId) \ fn.pressed, p \in TouchPoints :
        /\ fn' = [Controls(handlePointerDown(fn, id, p.x, p.y)) EXCEPT !.pressed = fn.pressed \cup {id}]
        /\ UNCHANGED <<g, tasks, obs>>

\* pointermove / touchmove (lines 760, 773-776)
PointerMove ==
    \E id \in fn.pressed, p \in TouchPoints :
        /\ fn' = Controls(handlePointerMove(fn, id, p.x, p.y))
        /\ UNCHANGED <<g, tasks, obs>>

\* pointerup, pointercancel, pointerout / touchend, touchcancel (lines 761, 765-767, 777-784)
PointerUp ==
    \E id \in fn.pressed :
        /\ fn' = [Controls(handlePointerUp(fn, id)) EXCEPT !.pressed = fn.pressed \ {id}]
        /\ UNCHANGED <<g, tasks, obs>>

\* resize or a race start with pointers down (lines 802, 1854)
LayoutReset ==
    /\ fn.layouts < MaxLayoutResets
    /\ fn' = [Controls(updateJoystickAnchors(fn)) EXCEPT !.layouts = fn.layouts + 1]
    /\ UNCHANGED <<g, tasks, obs>>

NextStick == PointerDown \/ PointerMove \/ PointerUp \/ LayoutReset

SpecStick == InitStick /\ [][NextStick]_vars

\* the pointers whose events reach the stick
StickPointers == {id \in 0 .. MaxPointerId : fn.pointerMap[id] = "stick"}

C30_StickStep ==
    /\ fn.valueX' >= 0 - 1000 /\ fn.valueX' <= 1000
    /\ Cardinality({id \in 0 .. MaxPointerId : fn.pointerMap'[id] = "stick"}) <= 1
    /\ \A holder \in StickPointers :
           (fn.pointerId = [held |-> TRUE, id |-> holder] /\ holder \in fn.pressed' /\ fn.layouts' = fn.layouts) =>
               fn.pointerId' = fn.pointerId
    /\ (fn.pointerId.held /\ ~fn.pointerId'.held) =>
           fn.layouts' # fn.layouts \/ fn.pointerId.id \notin fn.pressed'

\* C30: the steering stick is controlled by at most one pointer at a time: while one pointer
\* holds it, a down event of another pointer inside the zone does not take it over; the steering
\* value stays in [-1, 1] and the stick is let go, its value back at 0, only when the holding
\* pointer is released or the layout is reset.
C30_OnePointerHoldsStick == [][C30_StickStep]_vars

\* the touch with identifier 0 holds the stick to the left, a second touch inside the zone has
\* taken it over: both reach the stick, without any layout reset
C30_TakenOverFromPointerZero ==
    /\ fn.layouts = 0 /\ fn.pressed = {0, 1}
    /\ fn.pointerMap[0] = "stick" /\ fn.pointerMap[1] = "stick"
    /\ fn.pointerId = [held |-> TRUE, id |-> 1] /\ fn.valueX = 500

=============================================================================
